---- MODULE Spec2Model ----
(***************************************************************************)
(* A model of the SuperQalc programs:                                      *)
(*   - superqalc_onefile.cpp : tokenizer, shunting-yard translator, RPN    *)
(*     evaluator with units and the overflow escape, CLI main;             *)
(*   - superqalc_tower.cpp   : the exponent-tower formatter.               *)
(* Strings are sequences of one-character strings.  Arbitrary-precision    *)
(* numbers (mpz_t, mpfr_t, long double) are modelled by exact rationals    *)
(* n/d * 10^e; rounding of the binary formats is not modelled.             *)
(***************************************************************************)
EXTENDS Integers, Sequences, FiniteSets, TLC

\* ------------------------------------------------------------------------
\* Characters (<cctype>)
\* ------------------------------------------------------------------------
DigitChars == <<"0", "1", "2", "3", "4", "5", "6", "7", "8", "9">>

isdigit(c) == c \in {DigitChars[k] : k \in 1..10}

isalpha(c) ==
  c \in {"a", "b", "c", "d", "e", "f", "g", "h", "i", "j", "k", "l", "m",
         "n", "o", "p", "q", "r", "s", "t", "u", "v", "w", "x", "y", "z",
         "A", "B", "C", "D", "E", "F", "G", "H", "I", "J", "K", "L", "M",
         "N", "O", "P", "Q", "R", "S", "T", "U", "V", "W", "X", "Y", "Z"}

isspace(c) == c \in {" ", "\t", "\n", "\r"}

DigitVal(c) == (CHOOSE k \in 1..10 : DigitChars[k] = c) - 1

\* std::to_string / mpz_get_str of a non-negative integer
RECURSIVE NatToStr(_)
NatToStr(n) ==
  IF n < 10 THEN <<DigitChars[n + 1]>>
  ELSE NatToStr(n \div 10) \o <<DigitChars[(n % 10) + 1]>>

IntToStr(n) == IF n < 0 THEN <<"-">> \o NatToStr(-n) ELSE NatToStr(n)

\* ------------------------------------------------------------------------
\* Exact numbers n/d * 10^e (d > 0).  They stand for mpz_t integers
\* (d = 1, e >= 0), mpfr_t floats and long doubles.
\* ------------------------------------------------------------------------
Abs(x) == IF x < 0 THEN -x ELSE x

RECURSIVE Gcd(_, _)
Gcd(a, b) == IF b = 0 THEN Abs(a) ELSE Gcd(b, a % b)

RECURSIVE Pow10(_)
Pow10(k) == IF k <= 0 THEN 1 ELSE 10 * Pow10(k - 1)

\* number of decimal digits of n >= 1
RECURSIVE NDigits(_)
NDigits(n) == IF n < 10 THEN 1 ELSE 1 + NDigits(n \div 10)

RECURSIVE StripTens(_, _)
StripTens(n, e) ==
  IF n # 0 /\ n % 10 = 0 THEN StripTens(n \div 10, e + 1) ELSE <<n, e>>

MkNum(n, d, e) ==
  IF n = 0 THEN [n |-> 0, d |-> 1, e |-> 0]
  ELSE LET g  == Gcd(Abs(n), d)
           sn == StripTens(n \div g, e)
           sd == StripTens(d \div g, 0)
       IN  [n |-> sn[1], d |-> sd[1], e |-> sn[2] - sd[2]]

NumInt(k) == MkNum(k, 1, 0)

NumZero == NumInt(0)

NumOne == NumInt(1)

NumSign(a) == IF a.n > 0 THEN 1 ELSE IF a.n < 0 THEN -1 ELSE 0

NumIsZero(a) == a.n = 0

NumNeg(a) == [a EXCEPT !.n = -a.n]

NumAbs(a) == [a EXCEPT !.n = Abs(a.n)]

NumMul(a, b) ==
  LET g1 == Gcd(Abs(a.n), b.d)
      g2 == Gcd(Abs(b.n), a.d)
  IN  IF a.n = 0 \/ b.n = 0 THEN NumZero
      ELSE MkNum((a.n \div g1) * (b.n \div g2),
                 (a.d \div g2) * (b.d \div g1), a.e + b.e)

\* b # 0
NumInv(b) ==
  IF b.n > 0 THEN [n |-> b.d, d |-> b.n, e |-> -b.e]
  ELSE [n |-> -b.d, d |-> -b.n, e |-> -b.e]

NumDiv(a, b) == NumMul(a, NumInv(b))

NumAdd(a, b) ==
  IF a.n = 0 THEN b
  ELSE IF b.n = 0 THEN a
  ELSE LET m == IF a.e <= b.e THEN a.e ELSE b.e
           g == Gcd(a.d, b.d)
       IN  MkNum(a.n * Pow10(a.e - m) * (b.d \div g)
                   + b.n * Pow10(b.e - m) * (a.d \div g),
                 (a.d \div g) * b.d, m)

NumSub(a, b) == NumAdd(a, NumNeg(b))

\* bounds of the decimal order of magnitude of a # 0:
\*   MagLo(a) <= log10 |a| < MagHi(a)
MagLo(a) ==
  IF Abs(a.n) >= a.d THEN NDigits(Abs(a.n) \div a.d) - 1 + a.e
  ELSE NDigits(Abs(a.n)) - 1 - NDigits(a.d) + a.e

MagHi(a) ==
  IF Abs(a.n) >= a.d THEN NDigits(Abs(a.n) \div a.d) + a.e
  ELSE NDigits(Abs(a.n)) - (NDigits(a.d) - 1) + a.e

\* a < b
NumLess(a, b) ==
  IF NumSign(a) # NumSign(b) THEN NumSign(a) < NumSign(b)
  ELSE IF NumSign(a) = 0 THEN FALSE
  ELSE IF MagHi(a) <= MagLo(b) THEN NumSign(a) > 0
  ELSE IF MagLo(a) >= MagHi(b) THEN NumSign(a) < 0
  ELSE NumSign(NumSub(a, b)) < 0

NumEq(a, b) == ~NumLess(a, b) /\ ~NumLess(b, a)

\* the integer value of an integral number (d = 1, e >= 0)
NumToInt(a) == a.n * Pow10(a.e)

\* ------------------------------------------------------------------------
\* Dimension: exponents of L M T I Theta N J
\* ------------------------------------------------------------------------
DimZero == <<0, 0, 0, 0, 0, 0, 0>>

DimBase(k) == [i \in 1..7 |-> IF i = k THEN 1 ELSE 0]

DimEq(a, b) == \A i \in 1..7 : a[i] = b[i]

DimAdd(a, b) == [i \in 1..7 |-> a[i] + b[i]]

DimSub(a, b) == [i \in 1..7 |-> a[i] - b[i]]

pow_int(a, n) == [i \in 1..7 |-> a[i] * n]

\* ------------------------------------------------------------------------
\* Unit registry (UnitRegistry::init_units).  The table is an
\* unordered_map: it has no order of its own.
\* ------------------------------------------------------------------------
add_unit(name, factor, dim) == [name |-> name, factor |-> factor, dim |-> dim]

\* factor literals: Dec(m, e) is m * 10^e
Dec(m, e) == MkNum(m, 1, e)

UnitTable ==
  LET dL == DimBase(1)
      dM == DimBase(2)
      dT == DimBase(3)
      dI == DimBase(4)
      dTh == DimBase(5)
      dN == DimBase(6)
      dJ == DimBase(7)
      dNdim == DimAdd(DimAdd(dM, dL), pow_int(dT, -2))
      Jdim == DimAdd(dNdim, dL)
      Padim == DimAdd(dNdim, pow_int(dL, -2))
      Wdim == DimAdd(Jdim, pow_int(dT, -1))
      Hzdim == pow_int(dT, -1)
  IN
  { add_unit(<<"m">>, Dec(1, 0), dL),
    add_unit(<<"k", "g">>, Dec(1, 0), dM),
    add_unit(<<"s">>, Dec(1, 0), dT),
    add_unit(<<"A">>, Dec(1, 0), dI),
    add_unit(<<"K">>, Dec(1, 0), dTh),
    add_unit(<<"m", "o", "l">>, Dec(1, 0), dN),
    add_unit(<<"c", "d">>, Dec(1, 0), dJ),
    add_unit(<<>>, Dec(1, 0), DimZero),
    add_unit(<<"c", "m">>, Dec(1, -2), dL),
    add_unit(<<"m", "m">>, Dec(1, -3), dL),
    add_unit(<<"k", "m">>, Dec(1, 3), dL),
    add_unit(<<"u", "m">>, Dec(1, -6), dL),
    add_unit(<<"n", "m">>, Dec(1, -9), dL),
    add_unit(<<"m", "i", "n">>, Dec(60, 0), dT),
    add_unit(<<"h">>, Dec(3600, 0), dT),
    add_unit(<<"d", "a", "y">>, Dec(86400, 0), dT),
    add_unit(<<"N">>, Dec(1, 0), dNdim),
    add_unit(<<"J">>, Dec(1, 0), Jdim),
    add_unit(<<"P", "a">>, Dec(1, 0), Padim),
    add_unit(<<"W">>, Dec(1, 0), Wdim),
    add_unit(<<"H", "z">>, Dec(1, 0), Hzdim),
    add_unit(<<"e", "V">>, Dec(1602176634, -28), Jdim),
    add_unit(<<"b", "a", "r">>, Dec(1, 5), Padim),
    add_unit(<<"a", "t", "m">>, Dec(101325, 0), Padim),
    add_unit(<<"i", "n">>, Dec(254, -4), dL),
    add_unit(<<"f", "t">>, Dec(3048, -4), dL),
    add_unit(<<"y", "d">>, Dec(9144, -4), dL),
    add_unit(<<"m", "i">>, Dec(1609344, -3), dL),
    add_unit(<<"l", "b">>, Dec(45359237, -8), dM),
    \* 0.028349523125 = 45359237 / 16 * 10^-8
    add_unit(<<"o", "z">>, MkNum(45359237, 16, -8), dM),
    add_unit(<<"d", "e", "g", "C">>, Dec(1, 0), dTh),
    add_unit(<<"r", "a", "d">>, Dec(1, 0), DimZero),
    \* M_PI / 180 to ten significant digits
    add_unit(<<"d", "e", "g">>, Dec(1745329252, -11), DimZero),
    add_unit(<<"L">>, Dec(1, -3), pow_int(dL, 3)) }

\* UnitRegistry::lookup: the entry of that name, or none
lookup(name) == {u \in UnitTable : u.name = name}

units_with_dim(d) == {u \in UnitTable : DimEq(u.dim, d)}

\* ------------------------------------------------------------------------
\* Decimal output of numbers (iostream / mpfr_asprintf conversions)
\* ------------------------------------------------------------------------
RECURSIVE NatDigits(_)
NatDigits(n) == IF n < 10 THEN <<n>> ELSE Append(NatDigits(n \div 10), n % 10)

RECURSIVE FracDigits(_, _, _)
\* the first k digits after the point of r/d, 0 <= r < d
FracDigits(r, d, k) ==
  IF k <= 0 THEN <<>>
  ELSE <<(r * 10) \div d>> \o FracDigits((r * 10) % d, d, k - 1)

RECURSIVE LeadingZeros(_, _)
\* the number of zeros after the point of r/d before its first other digit,
\* 0 < r < d
LeadingZeros(r, d) ==
  IF (r * 10) \div d # 0 THEN 0 ELSE 1 + LeadingZeros(r * 10, d)

RECURSIVE Zeros(_)
Zeros(k) == IF k <= 0 THEN <<>> ELSE <<0>> \o Zeros(k - 1)

RECURSIVE Remainder10(_, _, _)
\* (r * 10^k) % d
Remainder10(r, d, k) ==
  IF k <= 0 THEN r ELSE Remainder10((r * 10) % d, d, k - 1)

\* decimal exponent X of a > 0: 10^X <= a < 10^(X+1)
Exp10(a) ==
  LET ip == a.n \div a.d
  IN  IF ip > 0 THEN NDigits(ip) - 1 + a.e
      ELSE -(LeadingZeros(a.n, a.d) + 1) + a.e

\* the first k digits of a > 0, from its leading digit on, not rounded
LeadDigits(a, k) ==
  LET ip == a.n \div a.d
      r  == a.n % a.d
      id == NatDigits(ip)
  IN  IF ip > 0
      THEN IF Len(id) >= k THEN SubSeq(id, 1, k)
           ELSE id \o FracDigits(r, a.d, k - Len(id))
      ELSE LET z == LeadingZeros(r, a.d)
           IN  FracDigits(Remainder10(r, a.d, z), a.d, k)

RECURSIVE Increment(_)
\* add one unit in the last place; a carry out of the first digit gives a
\* sequence one longer
Increment(ds) ==
  IF ds = <<>> THEN <<1>>
  ELSE IF ds[Len(ds)] < 9 THEN [ds EXCEPT ![Len(ds)] = @ + 1]
  ELSE Append(Increment(SubSeq(ds, 1, Len(ds) - 1)), 0)

\* a > 0 rounded to k >= 0 significant digits (half up): the digits and the
\* decimal exponent of the first of them
RoundSig(a, k) ==
  LET ds   == LeadDigits(a, k + 1)
      kept == SubSeq(ds, 1, k)
      up   == IF ds[k + 1] >= 5 THEN Increment(kept) ELSE kept
  IN  IF Len(up) > k
      THEN [digits |-> SubSeq(up, 1, IF k >= 1 THEN k ELSE 1), exp |-> Exp10(a) + 1]
      ELSE [digits |-> up, exp |-> Exp10(a)]

RECURSIVE DigitsToStr(_)
DigitsToStr(ds) ==
  IF ds = <<>> THEN <<>>
  ELSE <<DigitChars[Head(ds) + 1]>> \o DigitsToStr(Tail(ds))

RECURSIVE StripTrailingZeros(_)
StripTrailingZeros(ds) ==
  IF ds # <<>> /\ ds[Len(ds)] = 0
  THEN StripTrailingZeros(SubSeq(ds, 1, Len(ds) - 1)) ELSE ds

SignStr(a) == IF a.n < 0 THEN <<"-">> ELSE <<>>

\* exponent "e+XX" / "e-XX" with at least two digits
ExpStr(x) ==
  <<"e", IF x < 0 THEN "-" ELSE "+">>
    \o (IF Abs(x) < 10 THEN <<"0">> ELSE <<>>) \o NatToStr(Abs(x))

\* std::fixed << setprecision(p)
FormatFixed(a, p) ==
  IF a.n = 0 THEN <<"0">> \o (IF p > 0 THEN <<".">> ELSE <<>>) \o DigitsToStr(Zeros(p))
  ELSE
    LET m  == NumAbs(a)
        x  == Exp10(m)
        k  == x + 1 + p
        rs == IF k >= 0 THEN RoundSig(m, k) ELSE [digits |-> <<>>, exp |-> x]
        \* the digits from the 10^rs.exp place down to the 10^-p place
        nd == rs.exp + 1 + p
        all == IF rs.digits = <<>> THEN <<>>
               ELSE rs.digits \o Zeros(nd - Len(rs.digits))
        full == Zeros(p + 1 - Len(all)) \o all
        ni == Len(full) - p
    IN  SignStr(a) \o DigitsToStr(SubSeq(full, 1, ni))
          \o (IF p > 0 THEN <<".">> ELSE <<>>)
          \o DigitsToStr(SubSeq(full, ni + 1, Len(full)))

\* the %g conversion with precision p (ostream default float notation;
\* mpfr_asprintf "%.12Rg"): trailing zeros removed
FormatG(a, p) ==
  IF a.n = 0 THEN <<"0">>
  ELSE
    LET m  == NumAbs(a)
        rs == RoundSig(m, p)
        ds == StripTrailingZeros(rs.digits)
        x  == rs.exp
    IN  SignStr(a) \o
        (IF x < -4 \/ x >= p
         THEN DigitsToStr(<<ds[1]>>)
                \o (IF Len(ds) > 1 THEN <<".">> \o DigitsToStr(Tail(ds)) ELSE <<>>)
                \o ExpStr(x)
         ELSE IF x < 0
         THEN <<"0", ".">> \o DigitsToStr(Zeros(-x - 1)) \o DigitsToStr(ds)
         ELSE IF Len(ds) <= x + 1
         THEN DigitsToStr(ds \o Zeros(x + 1 - Len(ds)))
         ELSE DigitsToStr(SubSeq(ds, 1, x + 1)) \o <<".">>
                \o DigitsToStr(SubSeq(ds, x + 2, Len(ds))))

\* std::scientific << setprecision(p)
FormatSci(a, p) ==
  IF a.n = 0 THEN <<"0", ".">> \o DigitsToStr(Zeros(p)) \o ExpStr(0)
  ELSE
    LET rs == RoundSig(NumAbs(a), p + 1)
    IN  SignStr(a) \o DigitsToStr(<<rs.digits[1]>>) \o <<".">>
          \o DigitsToStr(Tail(rs.digits)) \o ExpStr(rs.exp)

\* ------------------------------------------------------------------------
\* Number parsing (mpz_set_str, mpfr_set_str)
\* ------------------------------------------------------------------------
RECURSIVE DigitsEnd(_, _)
\* the end of the run of digits of s that starts at i
DigitsEnd(s, i) ==
  IF i <= Len(s) /\ isdigit(s[i]) THEN DigitsEnd(s, i + 1) ELSE i

RECURSIVE TrailingZeroChars(_)
TrailingZeroChars(s) ==
  IF Len(s) > 1 /\ s[Len(s)] = "0"
  THEN 1 + TrailingZeroChars(SubSeq(s, 1, Len(s) - 1)) ELSE 0

RECURSIVE ParseNat(_)
ParseNat(s) ==
  IF s = <<>> THEN 0
  ELSE 10 * ParseNat(SubSeq(s, 1, Len(s) - 1)) + DigitVal(s[Len(s)])

\* a string of digits as a number
ParseDigits(s) ==
  LET z == TrailingZeroChars(s)
  IN  MkNum(ParseNat(SubSeq(s, 1, Len(s) - z)), 1, z)

\* mpz_set_str(i, ns, 10): ns holds digits only
mpz_set_str(ns) == ParseDigits(ns)

\* mpfr_set_str(f, ns, 10, MPFR_RNDN): the value of the longest prefix of ns
\* that is a number, digits [. digits] [(e|E) [+|-] digits]
mpfr_set_str(ns) ==
  LET i1   == DigitsEnd(ns, 1)
      dot  == i1 <= Len(ns) /\ ns[i1] = "."
      i2   == IF dot THEN DigitsEnd(ns, i1 + 1) ELSE i1
      ipart == SubSeq(ns, 1, i1 - 1)
      fpart == IF dot THEN SubSeq(ns, i1 + 1, i2 - 1) ELSE <<>>
      hasE == i2 <= Len(ns) /\ ns[i2] \in {"e", "E"}
      sgn  == hasE /\ i2 + 1 <= Len(ns) /\ ns[i2 + 1] \in {"+", "-"}
      k    == IF sgn THEN i2 + 2 ELSE i2 + 1
      i3   == IF hasE THEN DigitsEnd(ns, k) ELSE k
      ex   == IF hasE /\ i3 > k
              THEN (IF sgn /\ ns[i2 + 1] = "-" THEN -1 ELSE 1)
                     * ParseNat(SubSeq(ns, k, i3 - 1))
              ELSE 0
      m    == ParseDigits(ipart \o fpart)
  IN  IF ipart \o fpart = <<>> THEN NumZero
      ELSE MkNum(m.n, 1, m.e - Len(fpart) + ex)

\* ------------------------------------------------------------------------
\* BigValue
\* ------------------------------------------------------------------------
\* BigValue(): the integer 0, dimensionless
BigValue == [is_int |-> TRUE, v |-> NumZero, dim |-> DimZero]

\* the suffix search taking the shortest registered suffix
SuffixLookupShortest(unitname, pos) ==
  LET ps == {p \in pos..Len(unitname) : lookup(SubSeq(unitname, p, Len(unitname))) # {}}
  IN  IF ps = {} THEN {}
      ELSE lookup(SubSeq(unitname, CHOOSE p \in ps : \A r \in ps : r <= p, Len(unitname)))

RECURSIVE SuffixLookup(_, _)
\* the first registered suffix unitname.substr(pos), pos, pos + 1, ...
SuffixLookup(unitname, pos) ==
  IF pos > Len(unitname) THEN {}
  ELSE IF lookup(SubSeq(unitname, pos, Len(unitname))) # {}
  THEN lookup(SubSeq(unitname, pos, Len(unitname)))
  ELSE SuffixLookup(unitname, pos + 1)

\* the unit a nonempty name resolves to: a set of at most one entry
ResolveUnit(unitname) ==
  IF lookup(unitname) # {} THEN lookup(unitname)
  ELSE SuffixLookup(unitname, 2)

\* BigValue::set_from_string_and_unit on a fresh BigValue: the value, or the
\* runtime_error thrown
set_from_string_and_unit(numstr, unitname) ==
  LET ns == numstr
      hasUnit == unitname # <<>>
      looks_float == \E i \in 1..Len(ns) : ns[i] \in {".", "e", "E"}
      is_int == ~hasUnit /\ ~looks_float
      num == IF is_int THEN mpz_set_str(ns) ELSE mpfr_set_str(ns)
      us == ResolveUnit(unitname)
  IN  IF ~hasUnit
      THEN [thrown |-> FALSE, what |-> <<>>,
            val |-> [is_int |-> is_int, v |-> num, dim |-> DimZero]]
      ELSE IF us = {}
      THEN [thrown |-> TRUE, what |-> <<"U", "n", "k", "n", "o", "w", "n", " ", "u", "n", "i", "t", ":", " ">> \o unitname,
            val |-> BigValue]
      ELSE LET u == CHOOSE x \in us : TRUE
           IN  [thrown |-> FALSE, what |-> <<>>,
                val |-> [is_int |-> FALSE, v |-> NumMul(num, u.factor),
                         dim |-> u.dim]]

\* BigValue::estimate_long_double
estimate_long_double(val) == val.v

RECURSIVE BitLen(_)
BitLen(n) == IF n = 0 THEN 0 ELSE 1 + BitLen(n \div 2)

RECURSIVE MulTen(_, _, _)
\* ten times the limbs k.. of a natural, plus carry
MulTen(limbs, k, carry) ==
  IF k > Len(limbs) THEN IF carry = 0 THEN <<>> ELSE <<carry>>
  ELSE <<(limbs[k] * 10 + carry) % 65536>>
         \o MulTen(limbs, k + 1, (limbs[k] * 10 + carry) \div 65536)

RECURSIVE Limbs(_, _)
\* the natural n * 10^e of an mpz_t as 16-bit limbs, the least significant
\* first and the most significant not zero
Limbs(n, e) ==
  IF e > 0 THEN MulTen(Limbs(n, e - 1), 1, 0)
  ELSE IF n = 0 THEN <<>>
  ELSE IF n < 65536 THEN <<n>>
  ELSE <<n % 65536, n \div 65536>>

\* mpz_sizeinbase(i, 10) as GMP computes it from the bit length: the number
\* of digits, or one more
mpz_sizeinbase(i) ==
  LET l == Limbs(Abs(i.n), i.e)
  IN  IF i.n = 0 THEN 1
      ELSE ((16 * (Len(l) - 1) + BitLen(l[Len(l)])) * 30103) \div 100000 + 1

\* mpz_get_ui(i): the least significant 64 bits of |i|, as four limbs
mpz_get_ui(i) ==
  LET l == Limbs(Abs(i.n), i.e)
  IN  [k \in 1..4 |-> IF k <= Len(l) THEN l[k] ELSE 0]

\* the length of mpz_get_str(NULL, 10, i)
StrSize(i) == IF i.n = 0 THEN 1 ELSE NDigits(i.n) + i.e

\* BigValue::estimate_log10.  A logarithm is kept as its argument:
\* [k |-> "log", arg |-> a] is log10(a), a > 0.
estimate_log10(val) ==
  IF val.v.n = 0 THEN [k |-> "ninf", arg |-> NumZero]
  ELSE IF val.is_int
  THEN \* (digits - 1) + log10l(lead) - (take - 1)
       [k |-> "log",
        arg |-> NumMul(val.v, Dec(1, mpz_sizeinbase(val.v) - StrSize(val.v)))]
  ELSE IF val.v.n < 0 THEN [k |-> "nan", arg |-> NumZero]
  ELSE [k |-> "log", arg |-> val.v]

BaseNames == <<<<"m">>, <<"k", "g">>, <<"s">>, <<"A">>, <<"K">>, <<"m", "o", "l">>, <<"c", "d">>>>

RECURSIVE JoinStar(_)
JoinStar(parts) ==
  IF parts = <<>> THEN <<>>
  ELSE IF Len(parts) = 1 THEN parts[1]
  ELSE parts[1] \o <<"*">> \o JoinStar(Tail(parts))

RECURSIVE UnitParts(_, _, _)
\* the names of the base units whose exponent has sign sg, from index i on
UnitParts(dim, sg, i) ==
  IF i > 7 THEN <<>>
  ELSE IF dim[i] * sg > 0
  THEN <<BaseNames[i] \o (IF dim[i] * sg = 1 THEN <<>>
                          ELSE <<"^">> \o NatToStr(dim[i] * sg))>>
         \o UnitParts(dim, sg, i + 1)
  ELSE UnitParts(dim, sg, i + 1)

\* BigValue::compound_unit_string
compound_unit_string(dim) ==
  LET num == UnitParts(dim, 1, 1)
      den == UnitParts(dim, -1, 1)
  IN  (IF num = <<>> THEN <<"1">> ELSE JoinStar(num))
        \o (IF den = <<>> THEN <<>> ELSE <<"/">> \o JoinStar(den))

\* floor of a >= 0
NumFloor(a) ==
  IF a.e >= 0 THEN (a.n * Pow10(a.e)) \div a.d ELSE a.n \div (a.d * Pow10(-a.e))

\* llround of a >= 0
llround(a) == NumFloor(NumAdd(a, Dec(5, -1)))

\* mpz_get_str(NULL, 10, i), i >= 0
mpz_get_str(i) ==
  IF i.n = 0 THEN <<"0">> ELSE NatToStr(i.n) \o DigitsToStr(Zeros(i.e))

\* the text to_human prints for the candidate unit u
HumanWithUnit(val, u) ==
  LET scaled == NumDiv(estimate_long_double(val), u.factor)
      rounded == llround(scaled)
  IN  IF NumLess(NumAbs(NumSub(scaled, NumInt(rounded))), Dec(1, -12))
      THEN NatToStr(rounded) \o <<" ">> \o u.name
      ELSE FormatG(scaled, 12) \o <<" ">> \o u.name

\* the candidates to_human may stop at
HumanCandidates(val) ==
  {u \in units_with_dim(val.dim) :
     /\ ~NumIsZero(u.factor)
     /\ ~NumLess(NumDiv(estimate_long_double(val), u.factor), Dec(1, -1))
     /\ NumLess(NumDiv(estimate_long_double(val), u.factor), Dec(1, 3))}

\* BigValue::to_human: the strings it can return.  The candidates are
\* visited in the iteration order of the unordered_map, which is not fixed
\* by the program: the first candidate in range can be any of them.
to_human(val, prefer_si) ==
  IF DimEq(val.dim, DimZero)
  THEN IF val.is_int THEN {mpz_get_str(val.v)} ELSE {FormatG(val.v, 12)}
  ELSE IF ~prefer_si /\ HumanCandidates(val) # {}
  THEN {HumanWithUnit(val, u) : u \in HumanCandidates(val)}
  ELSE {FormatG(val.v, 12) \o <<" ">> \o compound_unit_string(val.dim)}

\* ------------------------------------------------------------------------
\* Tokenizer
\* ------------------------------------------------------------------------
Token(type, text) == [type |-> type, text |-> text]

is_ident_char(c) == isalpha(c) \/ c = "_" \/ c = "/" \/ c = "%" \/ c = "."

RECURSIVE NumRunEnd(_, _, _)
\* the end j of the number run of s that starts at i
NumRunEnd(s, i, j) ==
  IF /\ j <= Len(s)
     /\ \/ isdigit(s[j])
        \/ s[j] \in {".", "e", "E"}
        \/ (s[j] \in {"+", "-"} /\ j > i /\ s[j - 1] \in {"e", "E"})
  THEN NumRunEnd(s, i, j + 1)
  ELSE j

RECURSIVE IdentRunEnd(_, _)
IdentRunEnd(s, k) ==
  IF k <= Len(s) /\ is_ident_char(s[k]) THEN IdentRunEnd(s, k + 1) ELSE k

RECURSIVE TokenizeFrom(_, _)
TokenizeFrom(s, i) ==
  IF i > Len(s) THEN <<>>
  ELSE IF isspace(s[i]) THEN TokenizeFrom(s, i + 1)
  ELSE IF isdigit(s[i]) \/ (s[i] = "." /\ i + 1 <= Len(s) /\ isdigit(s[i + 1]))
  THEN LET j == NumRunEnd(s, i, i)
           num == SubSeq(s, i, j - 1)
           k == IdentRunEnd(s, j)
       IN  IF k > j
           THEN <<Token("T_NUM", num \o <<"#">> \o SubSeq(s, j, k - 1))>>
                  \o TokenizeFrom(s, k)
           ELSE <<Token("T_NUM", num)>> \o TokenizeFrom(s, j)
  ELSE IF is_ident_char(s[i])
  THEN LET j == IdentRunEnd(s, i)
           id == SubSeq(s, i, j - 1)
       IN  <<Token(IF id = <<"t", "o">> THEN "T_TO" ELSE "T_IDENT", id)>>
             \o TokenizeFrom(s, j)
  ELSE IF s[i] \in {"+", "-", "*", "/", "^"}
  THEN <<Token("T_OP", <<s[i]>>)>> \o TokenizeFrom(s, i + 1)
  ELSE IF s[i] = "(" THEN <<Token("T_LP", <<"(">>)>> \o TokenizeFrom(s, i + 1)
  ELSE IF s[i] = ")" THEN <<Token("T_RP", <<")">>)>> \o TokenizeFrom(s, i + 1)
  ELSE <<Token("T_OP", <<s[i]>>)>> \o TokenizeFrom(s, i + 1)

tokenize(s) == TokenizeFrom(s, 1)

\* ------------------------------------------------------------------------
\* Shunting-yard
\* ------------------------------------------------------------------------
prec(op) ==
  IF op = <<"t", "o">> THEN 1
  ELSE IF op = <<"=">> THEN 1
  ELSE IF op = <<"+">> \/ op = <<"-">> THEN 2
  ELSE IF op = <<"*">> \/ op = <<"/">> THEN 3
  ELSE IF op = <<"^">> THEN 5
  ELSE 0

\* right_assoc with no operator right-associative
right_assoc_none(op) == FALSE

right_assoc(op) == op = <<"^">>

\* whether the operator on top of the stack is moved to the output before
\* op is pushed
PopsBefore(op, top) ==
  \/ (~right_assoc(op) /\ prec(op) <= prec(top))
  \/ (right_assoc(op) /\ prec(op) < prec(top))

RECURSIVE PopOperators(_, _, _)
PopOperators(op, ops, output) ==
  IF /\ ops # <<>>
     /\ ops[Len(ops)].type \in {"T_OP", "T_TO"}
     /\ PopsBefore(op, ops[Len(ops)].text)
  THEN PopOperators(op, SubSeq(ops, 1, Len(ops) - 1),
                    Append(output, ops[Len(ops)]))
  ELSE [ops |-> ops, output |-> output]

RECURSIVE PopToParen(_, _)
PopToParen(ops, output) ==
  IF ops = <<>> THEN [found |-> FALSE, ops |-> ops, output |-> output]
  ELSE IF ops[Len(ops)].type = "T_LP"
  THEN [found |-> TRUE, ops |-> SubSeq(ops, 1, Len(ops) - 1), output |-> output]
  ELSE PopToParen(SubSeq(ops, 1, Len(ops) - 1), Append(output, ops[Len(ops)]))

RECURSIVE DrainOperators(_, _)
DrainOperators(ops, output) ==
  IF ops = <<>> THEN [thrown |-> FALSE, output |-> output]
  ELSE IF ops[Len(ops)].type \in {"T_LP", "T_RP"}
  THEN [thrown |-> TRUE, output |-> <<>>]
  ELSE DrainOperators(SubSeq(ops, 1, Len(ops) - 1), Append(output, ops[Len(ops)]))

RECURSIVE YardLoop(_, _, _, _)
YardLoop(tokens, idx, ops, output) ==
  IF idx > Len(tokens) THEN DrainOperators(ops, output)
  ELSE LET tk == tokens[idx]
       IN  IF tk.type \in {"T_NUM", "T_IDENT"}
           THEN YardLoop(tokens, idx + 1, ops, Append(output, tk))
           ELSE IF tk.type \in {"T_OP", "T_TO"}
           THEN LET p == PopOperators(tk.text, ops, output)
                IN  YardLoop(tokens, idx + 1, Append(p.ops, tk), p.output)
           ELSE IF tk.type = "T_LP"
           THEN YardLoop(tokens, idx + 1, Append(ops, tk), output)
           ELSE LET p == PopToParen(ops, output)
                IN  IF ~p.found THEN [thrown |-> TRUE, output |-> <<>>]
                    ELSE YardLoop(tokens, idx + 1, p.ops, p.output)

\* shunting_yard: the postfix stream, or thrown ("Mismatched parentheses")
shunting_yard(tokens) == YardLoop(tokens, 1, <<>>, <<>>)

\* ------------------------------------------------------------------------
\* Powers and the estimate of their size
\* ------------------------------------------------------------------------
RECURSIVE NumPow(_, _)
\* a^k for an integer k >= 0
NumPow(a, k) == IF k = 0 THEN NumOne ELSE NumMul(a, NumPow(a, k - 1))

NumIsIntegral(a) == a.d = 1 /\ a.e >= 0

\* an exponent as a fraction p/q of integers, q > 0
ExpP(x) ==
  IF x.e >= 0 THEN x.n * Pow10(x.e)
  ELSE x.n \div Gcd(Abs(x.n), x.d * Pow10(-x.e))

ExpQ(x) ==
  IF x.e >= 0 THEN x.d
  ELSE (x.d * Pow10(-x.e)) \div Gcd(Abs(x.n), x.d * Pow10(-x.e))

RECURSIVE PowLeq(_, _, _)
\* r^q <= m for naturals
PowLeq(r, q, m) ==
  IF q = 0 THEN 1 <= m ELSE r = 0 \/ (m >= r /\ PowLeq(r, q - 1, m \div r))

RECURSIVE RootSearch(_, _, _, _)
\* the largest r in lo..hi with r^q <= m (lo^q <= m)
RootSearch(lo, hi, m, q) ==
  IF lo >= hi THEN lo
  ELSE LET mid == (lo + hi + 1) \div 2
       IN  IF PowLeq(mid, q, m) THEN RootSearch(mid, hi, m, q)
           ELSE RootSearch(lo, mid - 1, m, q)

RootDecimals == 3

\* the q-th root of a > 0, q > 1, cut to RootDecimals decimals: it stands
\* for the rounded result of mpfr_exp(mpfr_log(a) * (1/q))
NumRoot(a, q) ==
  LET m == NumFloor(NumMul(a, Dec(1, RootDecimals * q)))
  IN  MkNum(RootSearch(0, m, m, q), 1, -RootDecimals)

\* base^x for base > 0: what mpz_pow_ui and exp(log(base) * x) compute
RealPow(base, x) ==
  LET p == ExpP(x)
      q == ExpQ(x)
      bp == IF p >= 0 THEN NumPow(base, p) ELSE NumInv(NumPow(base, -p))
  IN  IF NumEq(base, NumOne) THEN NumOne
      ELSE IF q = 1 THEN bp ELSE NumRoot(bp, q)

\* est_log10 = exp_val_approx * log10base, a long double:
\*   [k |-> "fin", arg |-> a, exp |-> x]  is  x * log10(a), a > 0
\*   [k |-> "nan"], [k |-> "ninf"], [k |-> "pinf"] are the other values
Est(k, arg, x) == [k |-> k, arg |-> arg, exp |-> x]

NoEst == Est("none", NumZero, NumZero)

EstTimes(x, log10base) ==
  IF log10base.k = "nan" THEN Est("nan", NumZero, NumZero)
  ELSE IF log10base.k = "ninf"
  THEN IF NumSign(x) > 0 THEN Est("ninf", NumZero, NumZero)
       ELSE IF NumSign(x) < 0 THEN Est("pinf", NumZero, NumZero)
       ELSE Est("nan", NumZero, NumZero)
  ELSE Est("fin", log10base.arg, x)

isfinite(est) == est.k = "fin"

\* whether arg^exp fits the numbers of the model
EstSmall(est) ==
  /\ est.k = "fin"
  /\ NumIsIntegral(est.exp)
  /\ NDigits(est.exp.n) + est.exp.e <= 2
  /\ NDigits(Abs(est.arg.n)) * NumToInt(est.exp) <= 9
  /\ NDigits(est.arg.d) * NumToInt(est.exp) <= 9

\* est > max_digits for a finite est and a natural max_digits
EstGreater(est, max_digits) ==
  LET one  == NumEq(est.arg, NumOne)
      big  == NumLess(NumOne, est.arg)
      A    == IF big THEN est.arg ELSE NumInv(est.arg)
      p    == Abs(ExpP(est.exp))
      q    == ExpQ(est.exp)
  IN  IF one \/ NumSign(est.exp) = 0 THEN FALSE
      ELSE IF big # (NumSign(est.exp) > 0) THEN FALSE
      ELSE IF p * MagHi(A) <= max_digits * q THEN FALSE
      ELSE IF p * MagLo(A) > max_digits * q THEN TRUE
      ELSE NumLess(Dec(1, max_digits * q), NumPow(A, p))

\* two estimates are the same long double
EstEq(x, y) ==
  IF EstSmall(x) /\ EstSmall(y)
  THEN NumEq(NumPow(x.arg, NumToInt(x.exp)), NumPow(y.arg, NumToInt(y.exp)))
  ELSE x = y

\* approx_from_log10.  The mantissa 10^frac is computed from arg^exp when
\* that fits; a larger estimate is printed here as the expression
\* 10^(exp*log10(arg)), which no claim reads.
approx_from_log10(est) ==
  IF ~isfinite(est) THEN <<"0">>
  ELSE IF EstSmall(est)
  THEN LET P == NumPow(est.arg, NumToInt(est.exp))
           f == Exp10(P)
           ip == IF f >= 0 \/ NumEq(P, Dec(1, f)) THEN f ELSE f + 1
       IN  FormatSci(NumMul(P, Dec(1, -ip)), 9) \o <<"E">> \o IntToStr(ip)
  ELSE <<"1", "0", "^", "(">> \o FormatG(est.exp, 12) \o <<"*", "l", "o", "g", "1", "0", "(">> \o FormatG(est.arg, 12)
         \o <<")", ")">>

\* ------------------------------------------------------------------------
\* Evaluator (eval_rpn)
\* ------------------------------------------------------------------------
\* EvalConfig
DEFAULT_MAX_DIGITS == 1000000

DEFAULT_MPFR_PREC == 256

EvalConfig ==
  [max_digits |-> DEFAULT_MAX_DIGITS, mpfr_prec |-> DEFAULT_MPFR_PREC,
   prefer_si |-> FALSE]

\* The outcome of one pass of the loop body: the stack goes on (ret = FALSE),
\* or eval_rpn returns {first, second} (ret = TRUE) with the stack freed.
\* est records est_log10 when the approximation was made from it.
Continue(st) ==
  [ret |-> FALSE, st |-> st, first |-> FALSE, second |-> <<>>, est |-> NoEst]

Return(first, second, est) ==
  [ret |-> TRUE, st |-> <<>>, first |-> first, second |-> second, est |-> est]

Float(v, dim) == [is_int |-> FALSE, v |-> v, dim |-> dim]

Integer(v, dim) == [is_int |-> TRUE, v |-> v, dim |-> dim]

RECURSIVE FindHash(_, _)
\* txt.find('#'): the index, or 0
FindHash(txt, i) ==
  IF i > Len(txt) THEN 0 ELSE IF txt[i] = "#" THEN i ELSE FindHash(txt, i + 1)

\* token_to_bigvalue
token_to_bigvalue(tk) ==
  LET pos == FindHash(tk.text, 1)
  IN  IF pos = 0 THEN set_from_string_and_unit(tk.text, <<>>)
      ELSE set_from_string_and_unit(SubSeq(tk.text, 1, pos - 1),
                                    SubSeq(tk.text, pos + 1, Len(tk.text)))

\* PushBuilt returning what() without the "Error: " in front of it
PushBuiltBare(st, built) ==
  IF built.thrown THEN {Return(FALSE, built.what, NoEst)}
  ELSE {Continue(Append(st, built.val))}

\* a value built by set_from_string_and_unit is pushed; its runtime_error is
\* caught at the end of eval_rpn
PushBuilt(st, built) ==
  IF built.thrown THEN {Return(FALSE, <<"E", "r", "r", "o", "r", ":", " ">> \o built.what, NoEst)}
  ELSE {Continue(Append(st, built.val))}

\* fabsl(f - unit_factor_ld) / max(1.0, fabsl(unit_factor_ld)) < 1e-12.
\* When one is less than a tenth of the other, the difference is taken to
\* be the larger of them.
FactorMatches(f, unit_factor_ld) ==
  LET af  == NumAbs(f)
      au  == NumAbs(unit_factor_ld)
      tol == NumMul(Dec(1, -12), IF NumLess(NumOne, au) THEN au ELSE NumOne)
      far == /\ ~NumIsZero(f) /\ ~NumIsZero(unit_factor_ld)
             /\ \/ MagLo(af) >= MagHi(au) + 1
                \/ MagLo(au) >= MagHi(af) + 1
  IN  IF far THEN NumLess(IF NumLess(af, au) THEN au ELSE af, tol)
      ELSE NumLess(NumAbs(NumSub(f, unit_factor_ld)), tol)

\* the registry entries the search of 'to' can stop at
TargetUnits(unitv) ==
  {u \in UnitTable : /\ DimEq(u.dim, unitv.dim)
                     /\ FactorMatches(u.factor, estimate_long_double(unitv))}

\* the T_TO branch
EvalTo(st) ==
  IF Len(st) < 2
  THEN {Return(FALSE,
               <<"E", "r", "r", "o", "r", ":", " ", "'", "t", "o", "'", " ", "r", "e", "q", "u", "i", "r", "e", "s", " ", "l", "e", "f", "t", " ", "v", "a", "l", "u", "e", " ", "a", "n", "d", " ", "r", "i", "g", "h", "t", " ", "u", "n", "i", "t", " ", "i", "d", "e", "n", "t", "i", "f", "i", "e", "r">>,
               NoEst)}
  ELSE LET unitv == st[Len(st)]
           val   == st[Len(st) - 1]
       IN  IF TargetUnits(unitv) = {}
           THEN {Return(FALSE, <<"E", "r", "r", "o", "r", ":", " ", "u", "n", "k", "n", "o", "w", "n", " ", "t", "a", "r", "g", "e", "t", " ", "u", "n", "i", "t", " ", "f", "o", "r", " ", "'", "t", "o", "'">>, NoEst)}
           ELSE {Return(FALSE,
                        FormatFixed(NumDiv(estimate_long_double(val), found.factor), 12)
                          \o <<" ">> \o found.name,
                        NoEst) : found \in TargetUnits(unitv)}

\* the + and - branches without the comparison of the Dimensions
EvalAddSubUnchecked(st, op) ==
  IF Len(st) < 2
  THEN {Return(FALSE, <<"E", "r", "r", "o", "r", ":", " ", "s", "t", "a", "c", "k", " ", "u", "n", "d", "e", "r", "f", "l", "o", "w", " ">> \o op, NoEst)}
  ELSE LET b == st[Len(st)]
           a == st[Len(st) - 1]
           rest == SubSeq(st, 1, Len(st) - 2)
       IN  {Continue(Append(rest,
              Float(IF op = <<"+">> THEN NumAdd(a.v, b.v) ELSE NumSub(a.v, b.v),
                    a.dim)))}

\* the + and - branches
EvalAddSub(st, op) ==
  IF Len(st) < 2
  THEN {Return(FALSE, <<"E", "r", "r", "o", "r", ":", " ", "s", "t", "a", "c", "k", " ", "u", "n", "d", "e", "r", "f", "l", "o", "w", " ">> \o op, NoEst)}
  ELSE LET b == st[Len(st)]
           a == st[Len(st) - 1]
           rest == SubSeq(st, 1, Len(st) - 2)
       IN  IF ~DimEq(a.dim, b.dim)
           THEN {Return(FALSE, <<"E", "r", "r", "o", "r", ":", " ", "U", "n", "i", "t", " ", "m", "i", "s", "m", "a", "t", "c", "h", " ", "f", "o", "r", " ">> \o op, NoEst)}
           ELSE {Continue(Append(rest,
                   Float(IF op = <<"+">> THEN NumAdd(a.v, b.v) ELSE NumSub(a.v, b.v),
                         a.dim)))}

\* the * branch
EvalMul(st) ==
  IF Len(st) < 2 THEN {Return(FALSE, <<"E", "r", "r", "o", "r", ":", " ", "s", "t", "a", "c", "k", " ", "u", "n", "d", "e", "r", "f", "l", "o", "w", " ", "*">>, NoEst)}
  ELSE LET b == st[Len(st)]
           a == st[Len(st) - 1]
           rest == SubSeq(st, 1, Len(st) - 2)
           dim == DimAdd(a.dim, b.dim)
       IN  IF a.is_int /\ b.is_int /\ DimEq(dim, DimZero)
           THEN {Continue(Append(rest, Integer(NumMul(a.v, b.v), dim)))}
           ELSE {Continue(Append(rest, Float(NumMul(a.v, b.v), dim)))}

\* the / branch keeping an exact integer when both operands are
EvalDivInteger(st) ==
  IF Len(st) < 2 THEN {Return(FALSE, <<"E", "r", "r", "o", "r", ":", " ", "s", "t", "a", "c", "k", " ", "u", "n", "d", "e", "r", "f", "l", "o", "w", " ", "/">>, NoEst)}
  ELSE LET b == st[Len(st)]
           a == st[Len(st) - 1]
           rest == SubSeq(st, 1, Len(st) - 2)
       IN  IF NumIsZero(b.v)
           THEN {Return(FALSE, <<"E", "r", "r", "o", "r", ":", " ", "d", "i", "v", "i", "s", "i", "o", "n", " ", "b", "y", " ", "z", "e", "r", "o">>, NoEst)}
           ELSE {Continue(Append(rest,
                   [is_int |-> a.is_int /\ b.is_int, v |-> NumDiv(a.v, b.v),
                    dim |-> DimSub(a.dim, b.dim)]))}

\* the / branch
EvalDiv(st) ==
  IF Len(st) < 2 THEN {Return(FALSE, <<"E", "r", "r", "o", "r", ":", " ", "s", "t", "a", "c", "k", " ", "u", "n", "d", "e", "r", "f", "l", "o", "w", " ", "/">>, NoEst)}
  ELSE LET b == st[Len(st)]
           a == st[Len(st) - 1]
           rest == SubSeq(st, 1, Len(st) - 2)
       IN  IF NumIsZero(b.v)
           THEN {Return(FALSE, <<"E", "r", "r", "o", "r", ":", " ", "d", "i", "v", "i", "s", "i", "o", "n", " ", "b", "y", " ", "z", "e", "r", "o">>, NoEst)}
           ELSE {Continue(Append(rest,
                   Float(NumDiv(a.v, b.v), DimSub(a.dim, b.dim))))}

\* (int)exp_ul: the conversion of an unsigned long to the 32-bit int keeps
\* the least significant 32 bits, read in two's complement
IntCast(exp_ul) ==
  IF exp_ul[2] >= 32768 THEN (exp_ul[2] - 65536) * 65536 + exp_ul[1]
  ELSE exp_ul[2] * 65536 + exp_ul[1]

\* the exactly computed power: the "Try compute exactly" part of the ^ branch
ExactPower(basev, expv) ==
  LET exp_is_int == expv.is_int
      exp_ul == IF exp_is_int THEN mpz_get_ui(expv.v) ELSE mpz_get_ui(NumZero)
      small == exp_ul[4] = 0 /\ exp_ul[3] = 0 /\ exp_ul[2] < 16 /\ IntCast(exp_ul) <= 1000000
  IN  IF basev.is_int /\ exp_is_int /\ small
      THEN Integer(NumPow(basev.v, IntCast(exp_ul)), pow_int(basev.dim, IntCast(exp_ul)))
      ELSE Float(RealPow(basev.v, expv.v),
                 IF exp_is_int THEN pow_int(basev.dim, IntCast(exp_ul))
                 ELSE basev.dim)

\* the ^ branch
EvalPow(st, cfg) ==
  IF Len(st) < 2 THEN {Return(FALSE, <<"E", "r", "r", "o", "r", ":", " ", "s", "t", "a", "c", "k", " ", "u", "n", "d", "e", "r", "f", "l", "o", "w", " ", "^">>, NoEst)}
  ELSE LET expv  == st[Len(st)]
           basev == st[Len(st) - 1]
           rest  == SubSeq(st, 1, Len(st) - 2)
           log10base == estimate_log10(basev)
           digits == mpz_sizeinbase(expv.v)
           est_log10 == EstTimes(expv.v, log10base)
       IN  IF ~DimEq(expv.dim, DimZero)
           THEN {Return(FALSE, <<"E", "r", "r", "o", "r", ":", " ", "e", "x", "p", "o", "n", "e", "n", "t", " ", "m", "u", "s", "t", " ", "b", "e", " ", "u", "n", "i", "t", "l", "e", "s", "s">>, NoEst)}
           ELSE IF expv.is_int /\ digits > 18
           THEN {Return(TRUE,
                        h \o <<"^", "(", "1", "E">> \o NatToStr(digits - 1) \o <<")">>, NoEst) :
                   h \in to_human(basev, cfg.prefer_si)}
           ELSE IF ~isfinite(est_log10) \/ EstGreater(est_log10, cfg.max_digits)
           THEN {Return(TRUE, approx_from_log10(est_log10), est_log10)}
           ELSE {Continue(Append(rest, ExactPower(basev, expv)))}

\* the T_OP branch
EvalOperator(st, op, cfg) ==
  IF op = <<"+">> \/ op = <<"-">> THEN EvalAddSub(st, op)
  ELSE IF op = <<"*">> THEN EvalMul(st)
  ELSE IF op = <<"/">> THEN EvalDiv(st)
  ELSE IF op = <<"^">> THEN EvalPow(st, cfg)
  ELSE {Return(FALSE, <<"E", "r", "r", "o", "r", ":", " ", "u", "n", "k", "n", "o", "w", "n", " ", "o", "p", "e", "r", "a", "t", "o", "r", " ", "'">> \o op \o <<"'">>, NoEst)}

\* one pass of the loop of eval_rpn over the token tk
EvalToken(st, tk, cfg) ==
  IF tk.type = "T_NUM" THEN PushBuilt(st, token_to_bigvalue(tk))
  ELSE IF tk.type = "T_IDENT"
  THEN PushBuilt(st, set_from_string_and_unit(<<"1">>, tk.text))
  ELSE IF tk.type = "T_TO" THEN EvalTo(st)
  ELSE IF tk.type = "T_OP" THEN EvalOperator(st, tk.text, cfg)
  ELSE {Return(FALSE, <<"I", "n", "t", "e", "r", "n", "a", "l", " ", "e", "r", "r", "o", "r", ":", " ", "u", "n", "e", "x", "p", "e", "c", "t", "e", "d", " ", "t", "o", "k", "e", "n", " ", "i", "n", " ", "R", "P", "N">>, NoEst)}

\* after the loop: free_stack runs before st.size() is printed
EvalFinish(st, cfg) ==
  IF Len(st) # 1
  THEN {Return(FALSE,
               <<"E", "r", "r", "o", "r", ":", " ", "i", "n", "v", "a", "l", "i", "d", " ", "e", "x", "p", "r", "e", "s", "s", "i", "o", "n", " ", "(", "s", "t", "a", "c", "k", " ", "s", "i", "z", "e", " ">> \o NatToStr(0) \o <<")">>,
               NoEst)}
  ELSE {Return(FALSE, out, NoEst) : out \in to_human(st[Len(st)], cfg.prefer_si)}

RECURSIVE EvalFrom(_, _, _, _)
\* the outcomes of eval_rpn from token i on with the stack st
EvalFrom(rpn, i, st, cfg) ==
  IF i > Len(rpn) THEN EvalFinish(st, cfg)
  ELSE UNION {IF o.ret THEN {o} ELSE EvalFrom(rpn, i + 1, o.st, cfg) :
                o \in EvalToken(st, rpn[i], cfg)}

\* eval_rpn(rpn, cfg): the pairs it can return
eval_rpn(rpn, cfg) == EvalFrom(rpn, 1, <<>>, cfg)

\* ------------------------------------------------------------------------
\* The BigValues of eval_rpn on the heap
\* ------------------------------------------------------------------------
\* A BigValue is named by its number in the order of allocation.
\* deleted[p] counts the runs of the destructor on the BigValue p, and st
\* holds the pointers of the vector st of eval_rpn, the last one on top.
NoHeap == [deleted |-> <<>>, st |-> <<>>]

\* new BigValue(): the pointer returned is Len(deleted) of the result
new_BigValue(h) == [h EXCEPT !.deleted = Append(h.deleted, 0)]

\* delete p
delete(h, p) == [h EXCEPT !.deleted[p] = h.deleted[p] + 1]

\* free_stack(st): every pointer of st is deleted, and st is cleared
free_stack(h) ==
  [deleted |-> [p \in 1..Len(h.deleted) |->
                  h.deleted[p] + Cardinality({k \in 1..Len(h.st) : h.st[k] = p})],
   st |-> <<>>]

\* the heap after the pass of the loop of eval_rpn over the token tk that
\* had the outcome o
HeapPass(h, tk, o) ==
  LET \* the two pointers the operators and 'to' pop, and the stack without them
      top    == h.st[Len(h.st)]
      second == h.st[Len(h.st) - 1]
      popped == [h EXCEPT !.st = SubSeq(h.st, 1, Len(h.st) - 2)]
      \* with: r = new BigValue() came before the return and r is deleted too
      Returns(with) ==
        IF with
        THEN delete(delete(delete(free_stack(new_BigValue(popped)), second), top),
                    Len(h.deleted) + 1)
        ELSE delete(delete(free_stack(popped), second), top)
      \* r = new BigValue(); st.push_back(r); delete a; delete b
      Pushes ==
        LET n == new_BigValue(popped)
        IN  delete(delete([n EXCEPT !.st = Append(n.st, Len(n.deleted))], second), top)
  IN  IF tk.type \in {"T_NUM", "T_IDENT"}
      THEN \* set_from_string_and_unit throws before push_back: the handler
           \* of eval_rpn frees the stack
           LET n == new_BigValue(h)
           IN  IF o.ret THEN free_stack(n)
               ELSE [n EXCEPT !.st = Append(n.st, Len(n.deleted))]
      ELSE IF tk.type = "T_TO"
      THEN IF Len(h.st) < 2 THEN free_stack(h) ELSE Returns(FALSE)
      ELSE IF tk.type = "T_OP" /\ tk.text \in {<<"+">>, <<"-">>, <<"*">>, <<"/">>, <<"^">>}
      THEN IF Len(h.st) < 2 THEN free_stack(h)
           ELSE IF o.ret THEN Returns(tk.text = <<"/">>)
           ELSE Pushes
      ELSE free_stack(h)

\* ------------------------------------------------------------------------
\* Tower formatter (superqalc_tower.cpp)
\* ------------------------------------------------------------------------
is_all_nines(num) == \A i \in 1..Len(num) : num[i] = "9"

\* is_power_of_10 without the test of the digits after the first
is_power_of_10_lax(num) == num # <<>> /\ num[1] = "1"

is_power_of_10(num) ==
  /\ num # <<>>
  /\ num[1] = "1"
  /\ \A i \in 2..Len(num) : num[i] = "0"

RECURSIVE find_first_not_of(_, _, _)
\* s.find_first_not_of(c, pos): the index, or 0 for npos
find_first_not_of(s, c, pos) ==
  IF pos > Len(s) THEN 0
  ELSE IF s[pos] # c THEN pos
  ELSE find_first_not_of(s, c, pos + 1)

\* convert_if_special echoing the line without its leading zeros
convert_if_special_trimmed(num) ==
  LET start == find_first_not_of(num, "0", 1)
      trimmed == SubSeq(num, start, Len(num))
  IN  IF start = 0 THEN <<"0">>
      ELSE IF is_power_of_10(trimmed)
      THEN <<"1", "E">> \o NatToStr(Len(trimmed) - 1)
      ELSE IF is_all_nines(trimmed)
      THEN <<"1", "E">> \o NatToStr(Len(trimmed))
      ELSE trimmed

convert_if_special(num) ==
  LET start == find_first_not_of(num, "0", 1)
      trimmed == SubSeq(num, start, Len(num))
  IN  IF start = 0 THEN <<"0">>
      ELSE IF is_power_of_10(trimmed)
      THEN <<"1", "E">> \o NatToStr(Len(trimmed) - 1)
      ELSE IF is_all_nines(trimmed)
      THEN <<"1", "E">> \o NatToStr(Len(trimmed))
      ELSE num

RECURSIVE format_tower(_)
format_tower(exps) ==
  IF Len(exps) = 1 THEN convert_if_special(exps[1])
  ELSE convert_if_special(exps[1]) \o <<"^", "(">> \o format_tower(Tail(exps)) \o <<")">>

RECURSIVE find(_, _, _)
\* s.find(c, pos): the index, or 0 for npos
find(s, c, pos) ==
  IF pos > Len(s) THEN 0
  ELSE IF s[pos] = c THEN pos
  ELSE find(s, c, pos + 1)

RECURSIVE ParseTowerFrom(_, _)
\* the loop of parse_tower from prev on
ParseTowerFrom(expr, prev) ==
  LET pos == find(expr, "^", prev)
  IN  IF pos # 0
      THEN <<SubSeq(expr, prev, pos - 1)>> \o ParseTowerFrom(expr, pos + 1)
      ELSE <<SubSeq(expr, prev, Len(expr))>>

parse_tower(expr) == ParseTowerFrom(expr, 1)

\* ------------------------------------------------------------------------
\* main of superqalc: the command line
\* ------------------------------------------------------------------------
\* a.rfind(p, 0) == 0
StartsWith(a, p) == Len(a) >= Len(p) /\ SubSeq(a, 1, Len(p)) = p

\* a.substr(pos)
substr(a, pos) == SubSeq(a, pos + 1, Len(a))

\* safe_stold: the value of the longest prefix that is a number, and 0.0
\* when stold throws because there is none.  The flags drawn below give
\* whole numbers only.
safe_stold(s) == NumToInt(mpfr_set_str(s))

\* stoi on a string of digits
stoi(s) == ParseNat(SubSeq(s, 1, DigitsEnd(s, 1) - 1))

\* what print_usage_and_exit writes to cerr, the program being run as
\* superqalc
print_usage ==
  << <<"U", "s", "a", "g", "e", ":", " ", "s", "u", "p", "e", "r", "q", "a", "l", "c", " ", "'", "<", "e", "x", "p", "r", "e", "s", "s", "i", "o", "n", ">", "'", " ", "[", "-", "-", "s", "i", "]", " ", "[", "-", "-", "m", "a", "x", "-", "d", "i", "g", "i", "t", "s", "=", "N", "]", " ", "[", "-", "-", "p", "r", "e", "c", "i", "s", "i", "o", "n", "=", "b", "i", "t", "s", "]">>,
     <<"E", "x", "a", "m", "p", "l", "e", "s", ":">>,
     <<" ", " ", "s", "u", "p", "e", "r", "q", "a", "l", "c", " ">> \o <<"\"">> \o <<"5", " ", "m", " ", "+", " ", "1", "2", " ", "c", "m">> \o <<"\"">>,
     <<" ", " ", "s", "u", "p", "e", "r", "q", "a", "l", "c", " ">> \o <<"\"">> \o <<"1", "0", "0", " ", "k", "m", " ", "t", "o", " ", "m">> \o <<"\"">> >>

RECURSIVE ParseFlags(_, _, _, _)
\* the loop over argv[2 ..] of main: the configuration, the lines written
\* to cerr, and whether print_usage_and_exit was reached
ParseFlags(args, k, c, errs) ==
  IF k > Len(args) THEN [cfg |-> c, err |-> errs, usage |-> FALSE]
  ELSE LET a == args[k]
       IN  IF StartsWith(a, <<"-", "-", "m", "a", "x", "-", "d", "i", "g", "i", "t", "s", "=">>)
           THEN ParseFlags(args, k + 1,
                           [c EXCEPT !.max_digits = safe_stold(substr(a, 12))], errs)
           ELSE IF StartsWith(a, <<"-", "-", "p", "r", "e", "c", "i", "s", "i", "o", "n", "=">>)
           THEN ParseFlags(args, k + 1,
                           [c EXCEPT !.mpfr_prec = stoi(substr(a, 12))], errs)
           ELSE IF a = <<"-", "-", "s", "i">>
           THEN ParseFlags(args, k + 1, [c EXCEPT !.prefer_si = TRUE], errs)
           ELSE IF a = <<"-", "-", "h", "e", "l", "p">> \/ a = <<"-", "h">>
           THEN [cfg |-> c, err |-> errs \o print_usage, usage |-> TRUE]
           ELSE ParseFlags(args, k + 1, c, Append(errs, <<"U", "n", "k", "n", "o", "w", "n", " ", "f", "l", "a", "g", ":", " ">> \o a))

\* ------------------------------------------------------------------------
\* The command lines and input lines the model runs the programs on
\* ------------------------------------------------------------------------
MaxOperand == 3

Operands == 1..MaxOperand

\* "x U to B" and "xU to B"
Conv(x, U, B) == NatToStr(x) \o <<" ">> \o U \o <<" ", "t", "o", " ">> \o B

ConvValues == {1, 100}

NamedUnits == {u \in UnitTable : u.name # <<>>}

\* the coherent SI units of the dimension of u
BaseUnits(u) ==
  {b \in NamedUnits : DimEq(b.dim, u.dim) /\ NumEq(b.factor, NumOne)}

ProductExprs ==
  { <<"1", " ", "N", " ", "*", " ", "2", " ", "m">>, <<"1", "N", " ", "*", " ", "2", "m">>, <<"2", " ", "*", " ", "3">>, <<"2", "m", " ", "*", " ", "3">>, <<"2", "+", "3", "*", "2">>, <<"2", "*", "3", "+", "2">>,
    <<"(", "2", "+", "3", ")", "*", "2">>, <<"2", "-", "3", "-", "2">> }

PowerExprs ==
  { <<"2", "^", "3", "^", "2">>, <<"2", "^", "(", "3", "^", "2", ")">>, <<"(", "2", "^", "3", ")", "^", "2">>, <<"2", "^", "1", "0">>, <<"1", "0", "^", "2">>, <<"9", "^", "9", "^", "9">>, <<"2", "m", "^", "3">>,
    <<"2", "m", "^", "3", "m">>, <<"1", "m", "^", "5", "0", "0", "0", "0", "0", "0", "0", "0", "0">>, <<"1", "m", "^", "3", "0", "0", "0", "0", "0", "0", "0", "0", "0">>, <<"1", "m", "^", "2">>, <<"4", "m", "^", "0", ".", "5">>, <<"1", "^", "5", "0", "0", "0", "0", "0", "0", "0", "0", "0">>, <<"5", "^", "+">>, <<"(", "1", "-", "3", ")", "^", "2">>, <<"2", "^", "(", "1", "-", "3", ")">>, <<"0", "^", "2">> }

Exprs ==
  LET
      ConvTight(x, U, B) == NatToStr(x) \o U \o <<" ", "t", "o", " ">> \o B
      ConvExprs ==
        UNION {{Conv(x, u.name, b.name) : x \in ConvValues, b \in BaseUnits(u)} :
                 u \in NamedUnits}
      SelfConvExprs == {Conv(1, u.name, u.name) : u \in NamedUnits}
      TightConvExprs ==
        { ConvTight(100, <<"k", "m">>, <<"m">>), ConvTight(3, <<"s">>, <<"m">>), ConvTight(2, <<"k", "g">>, <<"s">>),
          ConvTight(1, <<"K">>, <<"K">>), ConvTight(3, <<"m">>, <<"k", "m">>), Conv(3, <<"s">>, <<"m">>),
          <<"3", "m", " ", "t", "o", " ", "5", "m">>, <<"1", "0", "0", "0", " ", "t", "o", " ", "3">>, <<"t", "o", " ", "m">> }
      \* a/b and a / b
      DivExprs ==
        {NatToStr(a) \o <<"/">> \o NatToStr(b) : a \in Operands, b \in Operands}
          \cup {NatToStr(a) \o <<" ", "/", " ">> \o NatToStr(b) : a \in Operands, b \in Operands}
          \cup {<<"6", "/", "3">>, <<"6", " ", "/", " ", "3">>, <<"1", "/", "0">>}
      SumExprs ==
        { <<"5", " ", "m", " ", "+", " ", "1", "2", " ", "c", "m">>, <<"5", "m", " ", "+", " ", "1", "2", "c", "m">>, <<"5", "m", " ", "-", " ", "1", "2", "c", "m">>, <<"3", " ", "m", " ", "+", " ", "4", " ", "s">>, <<"3", "m", " ", "+", " ", "4", "s">>,
          <<"3", "m", " ", "-", " ", "4", "s">>, <<"2", " ", "+", " ", "3">>, <<"2", " ", "-", " ", "3">>, <<"2", "s", " ", "-", " ", "4", "s">>, <<"1", "N", " ", "+", " ", "1", "N">>, <<"+">>, <<"2", " ", "-">> }
      OtherExprs == { <<>>, <<"2", "k", "m">>, <<"1", ".", "5", ".", "2", "m">>, <<"5", "e", "m">>, <<"5", "e", "3">>, <<"5", "e", "+", "3", "m">>, <<"5", "e">>, <<"2", "x", "m">>, <<"2", "x", "k", "m">>, <<"3", "z", "z">>, <<"x", "m">>, <<"x", "k", "m">>, <<"2", ".", "5", "k", "m">>, <<"1", "^", "6", "0", "0", "0", "0", "0", "0", "0", "0", "0", "0", "0", "0", "0", "0", "0", "0", "0">>, <<"1", "^", "5", "0", "0", "0", "0", "0", "0", "0", "0", "0", "0", "0", "0", "0", "0", "0", "0", "0">>, <<"2", "^", "1", "0", "0", "0", "0", "0", "0", "0", "0", "0", "0", "0", "0", "0", "0", "0", "0", "0", "0", "0">>, <<"2", " ", "3", "m", " ", "t", "o", " ", "m">>, <<"2", " ", "9", "^", "9", "^", "9">>, <<"(", "2">>, <<"2", ")">>, <<"2", "=", "3">>, <<"5", "e", "V">>, <<"7">>, <<"2", ".", "5", "m">>, <<"m">> }
  IN
  ConvExprs \cup SelfConvExprs \cup TightConvExprs \cup DivExprs \cup SumExprs
    \cup ProductExprs \cup PowerExprs \cup OtherExprs

FlagExprs == PowerExprs \cup ProductExprs \cup {<<"5", "m", " ", "+", " ", "1", "2", "c", "m">>}

\* argv[1 ..]
CommandLines ==
  LET
      \* the flags given after the expression
      FlagLists ==
        { <<<<"-", "-", "m", "a", "x", "-", "d", "i", "g", "i", "t", "s", "=", "0">>>>, <<<<"-", "-", "m", "a", "x", "-", "d", "i", "g", "i", "t", "s", "=", "1">>>>, <<<<"-", "-", "m", "a", "x", "-", "d", "i", "g", "i", "t", "s", "=", "3">>>>,
          <<<<"-", "-", "s", "i">>>>, <<<<"-", "-", "p", "r", "e", "c", "i", "s", "i", "o", "n", "=", "6", "4">>>>, <<<<"-", "-", "b", "o", "g", "u", "s">>>>, <<<<"-", "-", "h", "e", "l", "p">>>>,
          <<<<"-", "h">>>>, <<<<"-", "-", "b", "o", "g", "u", "s">>, <<"-", "-", "s", "i">>, <<"-", "-", "m", "a", "x", "-", "d", "i", "g", "i", "t", "s", "=", "3">>>> }
  IN
  {<<>>} \cup {<<e>> : e \in Exprs}
    \cup {<<e>> \o fl : e \in FlagExprs, fl \in FlagLists}

\* the lines given to the tower formatter
TowerMaxLen == 3

TowerLines ==
  UNION {[1..n -> {"0", "1", "9", "2", "^"}] : n \in 0..TowerMaxLen}

TowerRuns == 2

\* the token streams given to shunting_yard alone: 2 op1 3 op2 2, flat and
\* with either pair in parentheses, and a op b
YardOps ==
  { Token("T_OP", <<"+">>), Token("T_OP", <<"-">>), Token("T_OP", <<"*">>),
    Token("T_OP", <<"/">>), Token("T_OP", <<"^">>), Token("T_TO", <<"t", "o">>) }

YardFlat(op1, op2) ==
  <<Token("T_NUM", <<"2">>), op1, Token("T_NUM", <<"3">>), op2, Token("T_NUM", <<"2">>)>>

YardStreams ==
  LET
      YardLeft(op1, op2) ==
        << Token("T_LP", <<"(">>), Token("T_NUM", <<"2">>), op1, Token("T_NUM", <<"3">>),
           Token("T_RP", <<")">>), op2, Token("T_NUM", <<"2">>) >>
      YardRight(op1, op2) ==
        << Token("T_NUM", <<"2">>), op1, Token("T_LP", <<"(">>), Token("T_NUM", <<"3">>), op2,
           Token("T_NUM", <<"2">>), Token("T_RP", <<")">>) >>
      \* a op b over numbers with and without a unit
      YardOperands ==
        { Token("T_NUM", <<"2">>), Token("T_NUM", <<"6", "#", "m">>),
          Token("T_NUM", <<"3", "#", "s">>), Token("T_NUM", <<"1", ".", "5">>),
          Token("T_NUM", <<"0">>) }
  IN
  UNION {{YardFlat(op1, op2), YardLeft(op1, op2), YardRight(op1, op2)} :
           op1 \in YardOps, op2 \in YardOps}
    \cup {<<a, op, b>> : a \in YardOperands, op \in YardOps, b \in YardOperands}

\* ------------------------------------------------------------------------
\* Python wrapper (wrapper.cpp)
\* ------------------------------------------------------------------------
\* what a run of the binary cmd, started without arguments as the wrapper
\* starts it, writes to its standard output when its standard input holds the
\* line ln: the tower formatter formats ln; superqalc finds argc < 2 and
\* writes its usage to standard error only
RunBinary(cmd, ln) ==
  IF cmd = "./advikmathlib/superqalc_tower" THEN <<format_tower(parse_tower(ln))>>
  ELSE <<>>

\* the lines the caller's own standard input can hold
WrapperStdin == {<<>>, <<"9", "9">>}

\* ------------------------------------------------------------------------
\* State
\* ------------------------------------------------------------------------
VARIABLES
  pc,        \* where main is
  argv,      \* argv[1 ..] of superqalc: the expression, then the flags
  cfg,       \* EvalConfig cfg of main
  tokens,    \* tokens of main
  rpn,       \* rpn of main
  rpn_i,     \* the index i of the loop of eval_rpn (from 1)
  st,        \* the stack st of eval_rpn
  res,       \* what eval_rpn returned
  out,       \* the lines written to cout
  err,       \* the lines written to cerr
  status,    \* the exit status, -1 while running
  line,      \* the line the tower formatter reads
  tower_out, \* the line each run of the tower formatter wrote
  wrap,      \* the call of the Python wrapper: run_command_stdin and its pipes
  heap       \* the BigValues eval_rpn allocated, and the pointers in its stack

vars ==
  <<pc, argv, cfg, tokens, rpn, rpn_i, st, res, out, err, status, line, tower_out,
    wrap, heap>>

\* run_command_stdin of the wrapper at one point of its body (at), called
\* by onefile or tower (cmd) with input, the caller's own standard input
\* holding the line stdin.  fed and read are the number of the run of the
\* binary that was given input and of the run whose output was read (0: none);
\* shown is what went to the caller's standard output.
Call(at, cmd, input, stdin) ==
  [at |-> at, cmd |-> cmd, input |-> input, stdin |-> stdin, fed |-> 0, read |-> 0,
   shown |-> <<>>, result |-> <<>>, thrown |-> <<>>]

\* the wrapper is not called
NoCall == Call("none", "none", <<>>, <<>>)

Start(p) ==
  /\ pc = p
  /\ cfg = EvalConfig
  /\ rpn = <<>>
  /\ rpn_i = 1
  /\ st = <<>>
  /\ res = [first |-> FALSE, second |-> <<>>, est |-> NoEst]
  /\ out = <<>>
  /\ err = <<>>
  /\ status = -1
  /\ tower_out = <<>>
  /\ heap = NoHeap

\* superqalc is started on a command line
Init ==
  Start("main") /\ argv \in CommandLines /\ tokens = <<>> /\ line = <<>> /\ wrap = NoCall

\* shunting_yard is given a token stream
InitYard ==
  /\ Start("shunting_yard") /\ argv = <<>> /\ tokens \in YardStreams /\ line = <<>>
  /\ wrap = NoCall

\* the tower formatter is started on a line
InitTower ==
  Start("tower") /\ argv = <<>> /\ tokens = <<>> /\ line \in TowerLines /\ wrap = NoCall

\* ------------------------------------------------------------------------
\* Actions of superqalc
\* ------------------------------------------------------------------------
\* the wrapper is called: onefile(input) or tower(input)
InitWrapper ==
  /\ Start("wrapper") /\ argv = <<>> /\ tokens = <<>> /\ line = <<>>
  /\ wrap \in {Call("popen_w", cmd, input, stdin) :
                 cmd \in {"./advikmathlib/superqalc_onefile", "./advikmathlib/superqalc_tower"},
                 input \in TowerLines, stdin \in WrapperStdin}

\* main, up to the end of the loop over the flags
MainArgs ==
  /\ pc = "main"
  /\ IF Len(argv) < 1
     THEN /\ err' = print_usage
          /\ status' = 1
          /\ pc' = "exit"
          /\ cfg' = cfg
     ELSE LET f == ParseFlags(argv, 2, EvalConfig, <<>>)
          IN  /\ cfg' = f.cfg
              /\ err' = f.err
              /\ status' = IF f.usage THEN 1 ELSE status
              /\ pc' = IF f.usage THEN "exit" ELSE "tokenize"
  /\ UNCHANGED <<argv, tokens, rpn, rpn_i, st, res, out, line, tower_out, wrap, heap>>

\* tokens = tokenize(expr); tokenize throws nothing
MainTokenize ==
  /\ pc = "tokenize"
  /\ tokens' = tokenize(argv[1])
  /\ pc' = "shunting_yard"
  /\ UNCHANGED <<argv, cfg, rpn, rpn_i, st, res, out, err, status, line, tower_out, wrap, heap>>

\* rpn = shunting_yard(tokens), and the line that announces the evaluation
MainShuntingYard ==
  /\ pc = "shunting_yard"
  /\ LET r == shunting_yard(tokens)
     IN  IF r.thrown
         THEN /\ err' = Append(err, <<"P", "a", "r", "s", "e", " ", "e", "r", "r", "o", "r", ":", " ", "M", "i", "s", "m", "a", "t", "c", "h", "e", "d", " ", "p", "a", "r", "e", "n", "t", "h", "e", "s", "e", "s">>)
              /\ status' = 1
              /\ pc' = "exit"
              /\ UNCHANGED <<rpn, out>>
         ELSE /\ rpn' = r.output
              /\ out' = Append(out, <<"P", "r", "o", "c", "e", "s", "s", "i", "n", "g", " ", "(", "p", "r", "e", "s", "s", " ", "E", "n", "t", "e", "r", " ", "t", "o", " ", "a", "b", "o", "r", "t", ")", ".", ".">>)
              /\ pc' = "poll"
              /\ UNCHANGED <<err, status>>
  /\ UNCHANGED <<argv, cfg, tokens, rpn_i, st, res, line, tower_out, wrap, heap>>

\* the ten polls of stdin find no Enter: eval_rpn is entered
MainPoll ==
  /\ pc = "poll"
  /\ pc' = "eval"
  /\ rpn_i' = 1
  /\ st' = <<>>
  /\ UNCHANGED <<argv, cfg, tokens, rpn, res, out, err, status, line, tower_out, wrap, heap>>

\* one of the polls finds Enter
MainAborted ==
  /\ pc = "poll"
  /\ out' = Append(out, <<"A", "b", "o", "r", "t", "e", "d", ".">>)
  /\ status' = 0
  /\ pc' = "exit"
  /\ UNCHANGED <<argv, cfg, tokens, rpn, rpn_i, st, res, err, line, tower_out, wrap, heap>>

\* the effect of one pass of the loop of eval_rpn with the outcome o
Pass(o) ==
  IF o.ret
  THEN /\ res' = [first |-> o.first, second |-> o.second, est |-> o.est]
       /\ st' = <<>>
       /\ pc' = "print"
       /\ rpn_i' = rpn_i
  ELSE /\ st' = o.st
       /\ rpn_i' = rpn_i + 1
       /\ UNCHANGED <<res, pc>>

\* one pass of the loop of eval_rpn, over the token rpn[i]
RpnPass ==
  /\ pc = "eval"
  /\ rpn_i <= Len(rpn)
  /\ \E o \in EvalToken(st, rpn[rpn_i], cfg) :
       Pass(o) /\ heap' = HeapPass(heap, rpn[rpn_i], o)
  /\ UNCHANGED <<argv, cfg, tokens, rpn, out, err, status, line, tower_out, wrap>>

\* the end of eval_rpn after the loop
RpnEnd ==
  /\ pc = "eval"
  /\ rpn_i > Len(rpn)
  /\ \E o \in EvalFinish(st, cfg) : Pass(o)
  /\ heap' = free_stack(heap)
  /\ UNCHANGED <<argv, cfg, tokens, rpn, out, err, status, line, tower_out, wrap>>

\* main prints res and returns 0; " ~= " stands for the literal the source
\* puts between the expression and the approximation
MainPrint ==
  /\ pc = "print"
  /\ out' = IF res.first
            THEN out \o << <<"w", "a", "r", "n", "i", "n", "g", ":", " ", "F", "l", "o", "a", "t", "i", "n", "g", " ", "p", "o", "i", "n", "t", " ", "o", "v", "e", "r", "f", "l", "o", "w">>,
                           argv[1] \o <<" ", "~", "=", " ">> \o res.second >>
            ELSE Append(out, res.second)
  /\ status' = 0
  /\ pc' = "exit"
  /\ UNCHANGED <<argv, cfg, tokens, rpn, rpn_i, st, res, err, line, tower_out, wrap, heap>>

\* ------------------------------------------------------------------------
\* The tower formatter: main reads a line and writes its tower; the next
\* run is given the line the last one wrote
\* ------------------------------------------------------------------------
TowerMain ==
  /\ pc = "tower"
  /\ Len(tower_out) < TowerRuns
  /\ LET expr == IF tower_out = <<>> THEN line ELSE tower_out[Len(tower_out)]
     IN  tower_out' = Append(tower_out, format_tower(parse_tower(expr)))
  /\ UNCHANGED <<pc, argv, cfg, tokens, rpn, rpn_i, st, res, out, err, status, line, wrap, heap>>

\* ------------------------------------------------------------------------
\* Specifications
\* ------------------------------------------------------------------------
\* ------------------------------------------------------------------------
\* Actions of the Python wrapper: run_command_stdin
\* ------------------------------------------------------------------------
\* popen(cmd, "w+").  "w+" is neither "r" nor "w", for which popen leaves the
\* behaviour open: it fails (as glibc does) and the wrapper throws, or it
\* starts the first run of the binary with a pipe to its standard input
WrapPopenWrite ==
  /\ wrap.at = "popen_w"
  /\ \/ wrap' = [wrap EXCEPT !.at = "done", !.thrown = <<"p", "o", "p", "e", "n", "(", ")", " ", "f", "a", "i", "l", "e", "d", "!">>]
     \/ wrap' = [wrap EXCEPT !.at = "write"]
  /\ UNCHANGED <<pc, argv, cfg, tokens, rpn, rpn_i, st, res, out, err, status, line, tower_out,
               heap>>

\* fwrite, fflush and pclose: the first run reads input, writes its output
\* to the standard output it inherited from the caller, and is waited for
WrapFeed ==
  /\ wrap.at = "write"
  /\ wrap' = [wrap EXCEPT !.at = "popen_r", !.fed = 1,
                          !.shown = RunBinary(wrap.cmd, wrap.input)]
  /\ UNCHANGED <<pc, argv, cfg, tokens, rpn, rpn_i, st, res, out, err, status, line, tower_out,
               heap>>

\* popen(cmd, "r"), the fgets loop and pclose: a second run of the binary,
\* whose standard input is the caller's, is started and its output read to
\* the end; result is returned
WrapRead ==
  /\ wrap.at = "popen_r"
  /\ wrap' = [wrap EXCEPT !.at = "done", !.read = 2,
                          !.result = RunBinary(wrap.cmd, wrap.stdin)]
  /\ UNCHANGED <<pc, argv, cfg, tokens, rpn, rpn_i, st, res, out, err, status, line, tower_out,
               heap>>

Next ==
  \/ MainArgs
  \/ MainTokenize
  \/ MainShuntingYard
  \/ MainPoll
  \/ MainAborted
  \/ RpnPass
  \/ RpnEnd
  \/ MainPrint

Spec == Init /\ [][Next]_vars

NextYard == MainShuntingYard \/ MainPoll \/ RpnPass \/ RpnEnd

SpecYard == InitYard /\ [][NextYard]_vars

SpecTower == InitTower /\ [][TowerMain]_vars

SpecWrapper == InitWrapper /\ [][WrapPopenWrite \/ WrapFeed \/ WrapRead]_vars

\* ------------------------------------------------------------------------
\* Claims
\* ------------------------------------------------------------------------
\* eval_rpn returned the text s as an exact result
Returned(s) == pc = "print" /\ ~res.first /\ res.second = s

\* superqalc was run on the expression e alone and eval_rpn has returned
RanOn(e) == pc = "print" /\ argv = <<e>>

\* C1: a number, whitespace, then a unit name is one quantity:
\* "5 m + 12 cm" evaluates to 5.12 m and "1 N * 2 m" to 2 J.
C1_NumberSpaceUnit ==
  /\ RanOn(<<"5", " ", "m", " ", "+", " ", "1", "2", " ", "c", "m">>) => Returned(<<"5", ".", "1", "2", " ", "m">>)
  /\ RanOn(<<"1", " ", "N", " ", "*", " ", "2", " ", "m">>) => Returned(<<"2", " ", "J">>)

\* C2: "x U to B" returns x*f labelled B for every unit U of factor f and
\* the SI unit B of its dimension, and "1 U to U" returns 1 labelled U;
\* "100 km to m" prints 100000.000000000000 m.  Stated for the units U
\* whose dimension has one unit of factor 1 in the registry.
C2_ConversionRoundTrip ==
  /\ \A u \in NamedUnits : \A x \in ConvValues : \A b \in BaseUnits(u) :
       (Cardinality(BaseUnits(u)) = 1 /\ RanOn(Conv(x, u.name, b.name)))
         => Returned(FormatFixed(NumMul(NumInt(x), u.factor), 12) \o <<" ">> \o b.name)
  /\ \A u \in NamedUnits :
       (Cardinality(BaseUnits(u)) = 1 /\ RanOn(Conv(1, u.name, u.name)))
         => Returned(FormatFixed(NumOne, 12) \o <<" ">> \o u.name)
  /\ RanOn(Conv(100, <<"k", "m">>, <<"m">>))
       => Returned(<<"1", "0", "0", "0", "0", "0", ".", "0", "0", "0", "0", "0", "0", "0", "0", "0", "0", "0", "0", " ", "m">>)

\* the pass of the loop of eval_rpn that is about to run is over a token of
\* the given type with two values on the stack
Applying(type) ==
  /\ pc = "eval"
  /\ rpn_i <= Len(rpn)
  /\ rpn[rpn_i].type = type
  /\ Len(st) >= 2

\* C3: whenever 'to' is applied to a left value and a target unit whose
\* Dimensions differ, evaluation ends with an error and no converted number.
C3_ToRejectsOtherDimension ==
  [][(Applying("T_TO") /\ st[Len(st) - 1].dim # st[Len(st)].dim)
       => (pc' = "print" /\ ~res'.first /\ StartsWith(res'.second, <<"E", "r", "r", "o", "r">>))]_vars

\* C4: whenever + or - is applied to the two topmost stack values, it
\* succeeds exactly when their Dimensions are equal: then a float of that
\* Dimension replaces them on the stack; otherwise evaluation ends with
\* "Error: Unit mismatch for <op>" and no result value.
C4_AddSubDimension ==
  [][(Applying("T_OP") /\ rpn[rpn_i].text \in {<<"+">>, <<"-">>})
       => IF st[Len(st) - 1].dim = st[Len(st)].dim
          THEN /\ pc' = "eval"
               /\ Len(st') = Len(st) - 1
               /\ SubSeq(st', 1, Len(st) - 2) = SubSeq(st, 1, Len(st) - 2)
               /\ ~st'[Len(st')].is_int
               /\ st'[Len(st')].dim = st[Len(st)].dim
          ELSE /\ pc' = "print"
               /\ ~res'.first
               /\ res'.second = <<"E", "r", "r", "o", "r", ":", " ", "U", "n", "i", "t", " ", "m", "i", "s", "m", "a", "t", "c", "h", " ", "f", "o", "r", " ">> \o rpn[rpn_i].text
               /\ st' = <<>>]_vars

\* C4, witness: 5m + 12cm has been added to a float length
C4_Witness ==
  /\ pc = "eval"
  /\ argv = <<<<"5", "m", " ", "+", " ", "1", "2", "c", "m">>>>
  /\ rpn_i = 4
  /\ rpn[3] = Token("T_OP", <<"+">>)
  /\ Len(st) = 1
  /\ ~st[1].is_int
  /\ st[1].dim = DimBase(1)
  /\ NumEq(st[1].v, Dec(512, -2))

\* the binding strength the claim gives each operator
Strength(tk) ==
  IF tk.text = <<"^">> THEN 4
  ELSE IF tk.text \in {<<"*">>, <<"/">>} THEN 3
  ELSE IF tk.text \in {<<"+">>, <<"-">>} THEN 2
  ELSE 1

\* C5: for the input 2 op1 3 op2 2 without parentheses the postfix is
\* 2 3 2 op2 op1 exactly when op2 binds tighter than op1 or both are ^,
\* and 2 3 op1 2 op2 otherwise; 2^3^2 and 2^(3^2) both evaluate to 512.
C5_Postfix ==
  /\ pc # "shunting_yard"
       => \A op1 \in YardOps : \A op2 \in YardOps :
            tokens = YardFlat(op1, op2)
              => rpn = IF \/ Strength(op2) > Strength(op1)
                           \/ (op1 = op2 /\ op1.text = <<"^">>)
                       THEN << Token("T_NUM", <<"2">>), Token("T_NUM", <<"3">>),
                               Token("T_NUM", <<"2">>), op2, op1 >>
                       ELSE << Token("T_NUM", <<"2">>), Token("T_NUM", <<"3">>), op1,
                               Token("T_NUM", <<"2">>), op2 >>
  /\ (pc = "print" /\ tokens \in {tokenize(<<"2", "^", "3", "^", "2">>), tokenize(<<"2", "^", "(", "3", "^", "2", ")">>)})
       => Returned(<<"5", "1", "2">>)

\* C5, witness: 2^3^2 was translated to 2 3 2 ^ ^ and evaluated to 512
C5_Witness ==
  /\ tokens = tokenize(<<"2", "^", "3", "^", "2">>)
  /\ rpn = << Token("T_NUM", <<"2">>), Token("T_NUM", <<"3">>), Token("T_NUM", <<"2">>),
              Token("T_OP", <<"^">>), Token("T_OP", <<"^">>) >>
  /\ Returned(<<"5", "1", "2">>)

\* the thresholds main can give eval_rpn
Thresholds == {0, DEFAULT_MAX_DIGITS}

\* C6: when the evaluation of an expression with threshold M1 is approximate
\* with estimated log10 L, its evaluation with any larger threshold M2 is
\* exact, or approximate with the same L.
C6_OverflowEscapeMonotone ==
  (pc = "print" /\ res.first)
    => \A M2 \in Thresholds :
         M2 > cfg.max_digits
           => \A o \in eval_rpn(rpn, [cfg EXCEPT !.max_digits = M2]) :
                o.first => EstEq(o.est, res.est)

\* C7: "a/b" and "a / b" on unitless integer literals apply the division
\* operator: / is tokenized as an operator and the quotient is returned as a
\* float.
C7_SlashDivides ==
  \A a \in Operands : \A b \in Operands :
    (RanOn(NatToStr(a) \o <<"/">> \o NatToStr(b)) \/ RanOn(NatToStr(a) \o <<" ", "/", " ">> \o NatToStr(b)))
      => /\ \E k \in 1..Len(tokens) : tokens[k] = Token("T_OP", <<"/">>)
         /\ Returned(FormatG(NumDiv(NumInt(a), NumInt(b)), 12))

\* C8 as claimed: formatting the formatter's output again yields the same
\* string, for every input line.
C8_Idempotent ==
  \A k \in 2..Len(tower_out) : tower_out[k] = tower_out[1]

\* C8 as amended: for every input line that holds no ^, formatting the
\* formatter's output again yields the same string.
C8_IdempotentOnOneTerm ==
  (\A j \in 1..Len(line) : line[j] # "^")
    => \A k \in 2..Len(tower_out) : tower_out[k] = tower_out[1]

\* C8, witness: 010 was formatted to 1E1, and 1E1 to 1E1 again
C8_Witness == line = <<"0", "1", "0">> /\ tower_out = <<<<"1", "E", "1">>, <<"1", "E", "1">>>>

\* the terms of a line: what lies between its ^
CaretsOf(ln) == {j \in 1..Len(ln) : ln[j] = "^"}

TermOf(ln, n) ==
  LET before == {j \in CaretsOf(ln) : Cardinality({c \in CaretsOf(ln) : c <= j}) = n - 1}
      after  == {j \in CaretsOf(ln) : Cardinality({c \in CaretsOf(ln) : c <= j}) = n}
      from   == IF before = {} THEN 1 ELSE (CHOOSE j \in before : TRUE) + 1
      upto   == IF after = {} THEN Len(ln) ELSE (CHOOSE j \in after : TRUE) - 1
  IN  SubSeq(ln, from, upto)

\* t without its leading zeros
Trimmed(t) ==
  LET z == CHOOSE n \in 0..Len(t) :
             /\ \A j \in 1..n : t[j] = "0"
             /\ n = Len(t) \/ t[n + 1] # "0"
  IN  SubSeq(t, z + 1, Len(t))

\* w is 1 followed by k zeros, or k nines
OneZeros(w, k) == Len(w) = k + 1 /\ w[1] = "1" /\ \A j \in 2..Len(w) : w[j] = "0"

Nines(w, k) == k >= 1 /\ Len(w) = k /\ \A j \in 1..Len(w) : w[j] = "9"

\* the term the claim writes for t: 1E<k>, or t unchanged
ClaimedTerm(t) ==
  IF \E k \in 0..Len(t) : OneZeros(Trimmed(t), k) \/ Nines(Trimmed(t), k)
  THEN <<"1", "E">> \o NatToStr(CHOOSE k \in 0..Len(t) :
                           OneZeros(Trimmed(t), k) \/ Nines(Trimmed(t), k))
  ELSE t

\* the same, a term that is empty or all zeros being written 0
AmendedTerm(t) == IF Trimmed(t) = <<>> THEN <<"0">> ELSE ClaimedTerm(t)

RECURSIVE Nested(_, _, _)
\* T(n)^(T(n+1)^(...(T(last))))
Nested(T(_), n, last) ==
  IF n >= last THEN T(n) ELSE T(n) \o <<"^", "(">> \o Nested(T, n + 1, last) \o <<")">>

\* C9 as claimed: the output for the terms t1..tn is T1^(T2^(...(Tn))), each
\* Ti being 1E<k> when ti without its leading zeros is 1 followed by k zeros
\* or k nines, and ti unchanged in every other case.
C9_TowerOutput ==
  tower_out # <<>>
    => LET T(n) == ClaimedTerm(TermOf(line, n))
       IN  tower_out[1] = Nested(T, 1, Cardinality(CaretsOf(line)) + 1)

\* C9 as amended: the same, but a term that is empty or holds only zeros is
\* written 0.
C9_TowerOutputZero ==
  tower_out # <<>>
    => LET T(n) == AmendedTerm(TermOf(line, n))
       IN  tower_out[1] = Nested(T, 1, Cardinality(CaretsOf(line)) + 1)

\* C9, witness: ^99, an empty term and two nines, was written as 0^(1E2)
C9_Witness == line = <<"^", "9", "9">> /\ tower_out # <<>> /\ tower_out[1] = <<"0", "^", "(", "1", "E", "2", ")">>

\* C10: --max-digits=N makes the threshold of the evaluator N, so that an
\* exponentiation whose estimate is at most N is computed exactly:
\* 10^2 under --max-digits=3 is 100.
C10_MaxDigitsFlag ==
  /\ \A N \in {0, 1, 3} :
       (pc # "main" /\ argv \in {<<e, <<"-", "-", "m", "a", "x", "-", "d", "i", "g", "i", "t", "s", "=">> \o NatToStr(N)>> : e \in FlagExprs})
         => cfg.max_digits = N
  /\ (pc = "print" /\ argv = <<<<"1", "0", "^", "2">>, <<"-", "-", "m", "a", "x", "-", "d", "i", "g", "i", "t", "s", "=", "3">>>>) => Returned(<<"1", "0", "0">>)

\* ------------------------------------------------------------------------
\* C11: exit codes and evaluation-time errors
\* ------------------------------------------------------------------------
\* the number of ( less the number of ) among the first k characters of e
Depth(e, k) ==
  Cardinality({j \in 1..k : e[j] = "("}) - Cardinality({j \in 1..k : e[j] = ")"})

\* a pre-evaluation step fails: there is no expression argument, or a
\* parenthesis of the expression has no partner
PreEvaluationFails ==
  \/ argv = <<>>
  \/ \E k \in 1..Len(argv[1]) : Depth(argv[1], k) < 0
  \/ Depth(argv[1], Len(argv[1])) # 0

\* --help or -h is among the flags
HelpAsked == \E k \in 2..Len(argv) : argv[k] \in {<<"-", "-", "h", "e", "l", "p">>, <<"-", "h">>}

\* the unit name the token tk carries, <<>> when it carries none
UnitOf(tk) ==
  IF tk.type = "T_IDENT" THEN tk.text
  ELSE IF tk.type = "T_NUM" /\ FindHash(tk.text, 1) # 0
  THEN SubSeq(tk.text, FindHash(tk.text, 1) + 1, Len(tk.text))
  ELSE <<>>

\* the step of eval_rpn that is about to run meets an evaluation-time error:
\* stack underflow, unit mismatch, division by zero, unknown unit, or a
\* stack that does not hold one value at the end
EvalError ==
  /\ pc = "eval"
  /\ IF rpn_i > Len(rpn) THEN Len(st) # 1
     ELSE \/ rpn[rpn_i].type \in {"T_OP", "T_TO"} /\ Len(st) < 2
          \/ /\ Applying("T_OP")
             /\ rpn[rpn_i].text \in {<<"+">>, <<"-">>}
             /\ st[Len(st) - 1].dim # st[Len(st)].dim
          \/ /\ Applying("T_OP")
             /\ rpn[rpn_i].text = <<"/">>
             /\ NumIsZero(st[Len(st)].v)
          \/ /\ UnitOf(rpn[rpn_i]) # <<>>
             /\ \A p \in 1..Len(UnitOf(rpn[rpn_i])) :
                  lookup(SubSeq(UnitOf(rpn[rpn_i]), p, Len(UnitOf(rpn[rpn_i])))) = {}

\* res is an error: a text starting with "Error: ", not flagged approximate
IsError(r) == ~r.first /\ StartsWith(r.second, <<"E", "r", "r", "o", "r", ":", " ">>)

\* one step of the process, exiting with code 1 exactly when exits1 holds
ExitStep(exits1) ==
  /\ pc' = "exit"
       => /\ (status' = 1) <=> exits1
          /\ status' = 1
               => (err' # <<>> /\ out' = <<>> /\ rpn_i' = 1 /\ st' = <<>> /\ res'.second = <<>>)
  /\ EvalError => (pc' = "print" /\ IsError(res'))
  /\ (pc = "print" /\ IsError(res))
       => (pc' = "exit" /\ status' = 0 /\ out' = Append(out, res.second) /\ err' = err)

C12_ResultFromBalancedStack ==
  [][/\ (pc = "eval" /\ pc' = "print" /\ ~IsError(res'))
          => \/ rpn_i > Len(rpn) /\ Len(st) = 1
             \/ rpn_i = Len(rpn) /\ Len(st) = 2
     /\ (pc = "eval" /\ pc' = "print" /\ argv[1] \in {<<"2", " ", "3", "m", " ", "t", "o", " ", "m">>, <<"2", " ", "9", "^", "9", "^", "9">>})
          => (~res'.first /\ StartsWith(res'.second, <<"E", "r", "r", "o", "r", ":", " ", "i", "n", "v", "a", "l", "i", "d", " ", "e", "x", "p", "r", "e", "s", "s", "i", "o", "n", " ", "(", "s", "t", "a", "c", "k", " ", "s", "i", "z", "e", " ">>))]_vars


\* ------------------------------------------------------------------------
\* C13: when a call of the wrapper's tower(input) or onefile(input) is
\* over, it has returned (not thrown), the run of the binary whose output it
\* read is the run it gave `input` to, and the string returned is what the
\* binary prints when given `input`
\* ------------------------------------------------------------------------
C13_WrapperRoundTrip ==
  wrap.at = "done" =>
    /\ wrap.thrown = <<>>
    /\ wrap.fed # 0 /\ wrap.read = wrap.fed
    /\ wrap.result = RunBinary(wrap.cmd, wrap.input)


\* ------------------------------------------------------------------------
\* C14: after every step of the evaluator each Value on the stack that is
\* tagged exact-integer has the all-zero Dimension; the Value pushed for a
\* token with a unit, the result of + - /, and the result of * with a
\* nonzero Dimension are floats.
\* ------------------------------------------------------------------------
C14_ExactIntegerIsDimensionless ==
  [][/\ \A k \in 1..Len(st') : st'[k].is_int => st'[k].dim = DimZero
     /\ (pc = "eval" /\ pc' = "eval" /\ rpn_i' = rpn_i + 1)
          => LET tk  == rpn[rpn_i]
                 top == st'[Len(st')]
             IN  /\ UnitOf(tk) # <<>> => ~top.is_int
                 /\ (tk.type = "T_OP" /\ tk.text \in {<<"+">>, <<"-">>, <<"/">>}) => ~top.is_int
                 /\ (tk.type = "T_OP" /\ tk.text = <<"*">> /\ top.dim # DimZero)
                      => ~top.is_int]_vars

\* C14, witness: 6m / 3s has been divided to the float 2 of Dimension m/s
C14_Witness ==
  /\ pc = "eval"
  /\ rpn_i = 4
  /\ rpn[3] = Token("T_OP", <<"/">>)
  /\ Len(st) = 1
  /\ ~st[1].is_int
  /\ rpn[1].text = <<"6", "#", "m">>
  /\ st[1].dim = <<1, 0, -1, 0, 0, 0, 0>>
  /\ NumEq(st[1].v, NumInt(2))


\* ------------------------------------------------------------------------
\* C15: when ^ pushes an exactly computed power and the exponent is an
\* exact integer n, each component of the Dimension of the result is the
\* component of the base multiplied by n, also for n beyond the range of a
\* 32-bit signed integer; for a fractional exponent the Dimension of the
\* result is the Dimension of the base.
\* ------------------------------------------------------------------------
C15_PowerDimension ==
  [][(Applying("T_OP") /\ rpn[rpn_i].text = <<"^">> /\ pc' = "eval" /\ rpn_i' = rpn_i + 1)
       => LET expv  == st[Len(st)]
              basev == st[Len(st) - 1]
              top   == st'[Len(st')]
          IN  IF expv.is_int
              THEN \A i \in 1..7 :
                     NumEq(NumInt(top.dim[i]), NumMul(NumInt(basev.dim[i]), expv.v))
              ELSE ~NumIsIntegral(expv.v) => top.dim = basev.dim]_vars


\* ------------------------------------------------------------------------
\* C16: ^ ends with "Error: exponent must be unitless" when the exponent
\* has a nonzero Dimension; otherwise it returns an approximation exactly
\* when the exponent is an exact integer of more than 18 decimal digits, or
\* est = exponent x log10(base) is not finite or is greater than max_digits;
\* in every other case it pushes the exactly computed power and goes on
\* with the next token.
\* ------------------------------------------------------------------------
C16_PowerOutcome ==
  [][(Applying("T_OP") /\ rpn[rpn_i].text = <<"^">>)
       => LET expv  == st[Len(st)]
              basev == st[Len(st) - 1]
              est   == EstTimes(expv.v, estimate_log10(basev))
          IN  IF expv.dim # DimZero
              THEN pc' = "print" /\ ~res'.first
                     /\ res'.second = <<"E", "r", "r", "o", "r", ":", " ", "e", "x", "p", "o", "n", "e", "n", "t", " ", "m", "u", "s", "t", " ", "b", "e", " ", "u", "n", "i", "t", "l", "e", "s", "s">>
              ELSE IF \/ expv.is_int /\ StrSize(expv.v) > 18
                      \/ ~isfinite(est)
                      \/ EstGreater(est, cfg.max_digits)
              THEN pc' = "print" /\ res'.first
              ELSE /\ pc' = "eval"
                   /\ rpn_i' = rpn_i + 1
                   /\ st' = Append(SubSeq(st, 1, Len(st) - 2), ExactPower(basev, expv))]_vars


\* ------------------------------------------------------------------------
\* C17: estimate_log10 depends only on the absolute value: for the base v
\* of every power, v not zero, it is the finite estimate it is for |v|; so
\* a power of the negative base 1 - 3 with a small exponent is computed
\* and not returned as an approximation.
\* ------------------------------------------------------------------------
C17_EstimateOfAbsoluteValue ==
  [][(Applying("T_OP") /\ rpn[rpn_i].text = <<"^">>)
       => LET basev == st[Len(st) - 1]
          IN  /\ ~NumIsZero(basev.v)
                   => /\ estimate_log10(basev).k = "log"
                      /\ estimate_log10(basev)
                           = estimate_log10([basev EXCEPT !.v = NumAbs(basev.v)])
              /\ (argv = <<<<"(", "1", "-", "3", ")", "^", "2">>>> /\ pc' = "print") => ~res'.first]_vars


\* ------------------------------------------------------------------------
\* C18: a token with the nonempty unit name N takes the factor and the
\* Dimension of the registry entry named N when there is one, and otherwise
\* of the entry named by the longest nonempty proper suffix of N that is
\* registered, with no multiplier for the letters before it; it ends with
\* "Error: Unknown unit: N" if and only if neither N nor any nonempty proper
\* suffix of N is registered.
\* ------------------------------------------------------------------------
C18_UnitResolution ==
  [][(pc = "eval" /\ rpn_i <= Len(rpn) /\ UnitOf(rpn[rpn_i]) # <<>>)
       => LET tk   == rpn[rpn_i]
              N    == UnitOf(tk)
              From(p) == SubSeq(N, p, Len(N))
              reg  == {p \in 1..Len(N) : \E u \in UnitTable : u.name = From(p)}
              first == CHOOSE p \in reg : \A r \in reg : p <= r
              num  == IF tk.type = "T_IDENT" THEN NumOne
                      ELSE mpfr_set_str(SubSeq(tk.text, 1, FindHash(tk.text, 1) - 1))
          IN  IF reg = {}
              THEN pc' = "print" /\ ~res'.first /\ res'.second = <<"E", "r", "r", "o", "r", ":", " ", "U", "n", "k", "n", "o", "w", "n", " ", "u", "n", "i", "t", ":", " ">> \o N
              ELSE /\ pc' = "eval"
                   /\ rpn_i' = rpn_i + 1
                   /\ Len(st') = Len(st) + 1
                   /\ \A u \in UnitTable :
                        u.name = From(first)
                          => /\ st'[Len(st')].dim = u.dim
                             /\ NumEq(st'[Len(st')].v, NumMul(num, u.factor))]_vars

\* C18, witness: the unit xkm of 2xkm was resolved by its suffix km to 2000 m
C18_Witness ==
  /\ pc = "eval"
  /\ argv = <<<<"2", "x", "k", "m">>>>
  /\ rpn = <<Token("T_NUM", <<"2", "#", "x", "k", "m">>)>>
  /\ rpn_i = 2
  /\ st = <<Float(NumInt(2000), DimBase(1))>>


\* ------------------------------------------------------------------------
\* C19: in every NUM token the tokenizer makes, the numeric part is a
\* well-formed literal: digits with at most one ".", and an exponent e or E
\* only when an optional sign and a digit follow it; the suffix is the whole
\* identifier run after it: "5eV" is the one token NUM("5#eV") and "2km"
\* the one token NUM("2#km").
\* ------------------------------------------------------------------------
C19_NumberToken ==
  pc \in {"shunting_yard", "poll", "eval", "print"}
    => /\ \A t \in 1..Len(tokens) :
            tokens[t].type = "T_NUM"
              => LET h   == FindHash(tokens[t].text, 1)
                     num == IF h = 0 THEN tokens[t].text ELSE SubSeq(tokens[t].text, 1, h - 1)
                     Digit(p) == p <= Len(num) /\ isdigit(num[p])
                 IN  /\ Cardinality({p \in 1..Len(num) : num[p] = "."}) <= 1
                     /\ Cardinality({p \in 1..Len(num) : num[p] \in {"e", "E"}}) <= 1
                     /\ \A p \in 1..Len(num) :
                          num[p] \in {"e", "E"}
                            => \/ Digit(p + 1)
                               \/ p + 1 <= Len(num) /\ num[p + 1] \in {"+", "-"} /\ Digit(p + 2)
       /\ argv[1] = <<"5", "e", "V">> => tokens = <<Token("T_NUM", <<"5", "#", "e", "V">>)>>
       /\ argv[1] = <<"2", "k", "m">> => tokens = <<Token("T_NUM", <<"2", "#", "k", "m">>)>>


\* ------------------------------------------------------------------------
\* C20: no two entries of the unit registry with different names have the
\* same Dimension and the same factor, so whenever `to` is applied its right
\* operand matches at most one entry, and the unit name printed does not
\* depend on the order in which the registry is searched.
\* ------------------------------------------------------------------------
C20_TargetUnitUnique ==
  /\ \A u \in UnitTable : \A v \in UnitTable :
       (DimEq(u.dim, v.dim) /\ NumEq(u.factor, v.factor)) => u.name = v.name
  /\ Applying("T_TO")
       => Cardinality({u.name : u \in TargetUnits(st[Len(st)])}) <= 1


\* ------------------------------------------------------------------------
\* C21: when eval_rpn has returned, on every path (a result, an
\* approximation, and every error, the unknown unit thrown while a Value is
\* being built included), each BigValue it allocated has been destroyed
\* exactly once: none is leaked and none is destroyed twice.
\* ------------------------------------------------------------------------
C21_EachValueDestroyedOnce ==
  pc = "print" => \A p \in 1..Len(heap.deleted) : heap.deleted[p] = 1

====
